---------------------------- MODULE Spec2Model ----------------------------
(***************************************************************************)
(* Break-even calculator: unit economics, ROAS thresholds, the reverse     *)
(* solver (status classification and scenario generation).                 *)
(*                                                                         *)
(* Numbers. The program computes with IEEE doubles. The model computes     *)
(* with exact rationals extended by +Infinity, -Infinity and NaN, which    *)
(* follow the IEEE rules for division by zero, Infinity arithmetic and NaN *)
(* propagation. Rounding and the sign of zero are not modelled.            *)
(* A number is a record [n |-> numerator, d |-> denominator], d >= 0,      *)
(* in lowest terms; d = 0 encodes Infinity (n = 1), -Infinity (n = -1)     *)
(* and NaN (n = 0).                                                        *)
(***************************************************************************)
EXTENDS Integers, Sequences, FiniteSets, TLC

VARIABLES inputs,      \* the ReverseInputs record handed to the library
          pc,          \* which call has completed
          reverse,     \* outcome of calculateReverse
          forward,     \* result of calculateBreakEven
          ue,          \* result of computeUnitEconomics
          th,          \* result of computeRoasThresholds
          scen,        \* result of generateScenarios
          rec,         \* [given, status, after, out] of updateScenarioRecommendations
          statusCall,  \* [req, be, tg, status] of determineStatus
          roi,         \* a simulation run: inputs, scenario and results
          opt,         \* a golden-section search in progress
          calib,       \* a calibration: data points, validation, regression
          csv,         \* a pasted text and the points parseCSV returns for it
          vol,         \* a call of a volume-model function and its result
          hook         \* the calculator hook: inputs and saved scenarios

vars == <<inputs, pc, reverse, forward, ue, th, scen, rec, statusCall, roi, opt, calib,
          csv, vol, hook>>

-----------------------------------------------------------------------------
(* Optional fields: <<>> is undefined, <<v>> is the value v.               *)
None == <<>>
Some(v) == <<v>>
IsDefined(o) == o # <<>>
Get(o) == o[1]

-----------------------------------------------------------------------------
(* Numbers                                                                 *)
Abs(x) == IF x < 0 THEN -x ELSE x
Sign(x) == IF x > 0 THEN 1 ELSE IF x < 0 THEN -1 ELSE 0

RECURSIVE Gcd(_, _)
Gcd(a, b) == IF b = 0 THEN a ELSE Gcd(b, a % b)

Norm(n, d) ==
  IF d = 0 THEN [n |-> Sign(n), d |-> 0]
  ELSE LET s == IF d < 0 THEN -1 ELSE 1
           g == Gcd(Abs(n), Abs(d))
       IN [n |-> (s * n) \div g, d |-> (s * d) \div g]

R(n, d) == Norm(n, d)
N(k) == [n |-> k, d |-> 1]
Infinity == [n |-> 1, d |-> 0]
NegInfinity == [n |-> -1, d |-> 0]
NaN == [n |-> 0, d |-> 0]

IsNaN(x) == x.d = 0 /\ x.n = 0
isFinite(x) == x.d # 0

Neg(x) == [n |-> -x.n, d |-> x.d]

Add(x, y) ==
  IF IsNaN(x) \/ IsNaN(y) THEN NaN
  ELSE IF x.d = 0 /\ y.d = 0 THEN (IF x.n = y.n THEN x ELSE NaN)
  ELSE IF x.d = 0 THEN x
  ELSE IF y.d = 0 THEN y
  ELSE Norm(x.n * y.d + y.n * x.d, x.d * y.d)

Sub(x, y) == Add(x, Neg(y))

Mul(x, y) ==
  IF IsNaN(x) \/ IsNaN(y) THEN NaN
  ELSE Norm(x.n * y.n, x.d * y.d)

\* 1 / y for a finite y; 1 / 0 is Infinity.
Recip(y) == IF y.n = 0 THEN Infinity ELSE Norm(y.d, y.n)

Div(x, y) ==
  IF IsNaN(x) \/ IsNaN(y) THEN NaN
  ELSE IF x.d = 0 /\ y.d = 0 THEN NaN
  ELSE IF y.d = 0 THEN N(0)
  ELSE Mul(x, Recip(y))

\* Comparisons are false as soon as one side is NaN.
Lt(x, y) ==
  /\ ~IsNaN(x) /\ ~IsNaN(y)
  /\ IF x.d = 0 /\ y.d = 0 THEN x.n < y.n
     ELSE IF x.d = 0 THEN x.n < 0
     ELSE IF y.d = 0 THEN y.n > 0
     ELSE x.n * y.d < y.n * x.d

Eq(x, y) == ~IsNaN(x) /\ ~IsNaN(y) /\ x = y
Le(x, y) == Lt(x, y) \/ Eq(x, y)
Gt(x, y) == Lt(y, x)
Ge(x, y) == Le(y, x)

Min(x, y) == IF IsNaN(x) \/ IsNaN(y) THEN NaN ELSE IF Lt(y, x) THEN y ELSE x

\* JavaScript truthiness of an optional number.
Truthy(o) == IsDefined(o) /\ ~IsNaN(Get(o)) /\ Get(o) # N(0)

-----------------------------------------------------------------------------
(* Industry defaults (lib/defaults.ts, tabulated in PROJECT.md).           *)
industryDefaults ==
  [ecommerce   |-> [margin |-> R(50, 100), returnRate |-> R(8, 100),
                    paymentFee |-> R(25, 1000), shippingCost |-> N(49),
                    ltvMultiplier |-> R(13, 10)],
   fashion     |-> [margin |-> R(55, 100), returnRate |-> R(25, 100),
                    paymentFee |-> R(25, 1000), shippingCost |-> N(0),
                    ltvMultiplier |-> R(14, 10)],
   beauty      |-> [margin |-> R(65, 100), returnRate |-> R(5, 100),
                    paymentFee |-> R(25, 1000), shippingCost |-> N(29),
                    ltvMultiplier |-> R(18, 10)],
   electronics |-> [margin |-> R(25, 100), returnRate |-> R(10, 100),
                    paymentFee |-> R(25, 1000), shippingCost |-> N(0),
                    ltvMultiplier |-> R(11, 10)],
   homeGarden  |-> [margin |-> R(45, 100), returnRate |-> R(8, 100),
                    paymentFee |-> R(25, 1000), shippingCost |-> N(99),
                    ltvMultiplier |-> R(12, 10)],
   saas        |-> [margin |-> R(80, 100), returnRate |-> R(5, 100),
                    paymentFee |-> R(25, 1000), shippingCost |-> N(0),
                    ltvMultiplier |-> N(3)],
   other       |-> [margin |-> R(50, 100), returnRate |-> R(8, 100),
                    paymentFee |-> R(25, 1000), shippingCost |-> N(49),
                    ltvMultiplier |-> R(13, 10)]]

\* A CalculatorInput with only the required fields set.
CalculatorInput(aov, industry) ==
  [aov |-> aov, industry |-> industry,
   productCost |-> None, grossMargin |-> None, returnRate |-> None,
   shippingCost |-> None, shippingCostPercent |-> None,
   shippingCostType |-> None, paymentFee |-> None, ltvMultiplier |-> None,
   desiredProfitMargin |-> None, ltvMode |-> None]

-----------------------------------------------------------------------------
(* lib/unit-economics.ts                                                   *)

\* Shipping cost resolution shared by computeUnitEconomics and
\* calculateBreakEven (the same three-way branch in both).
resolveShippingCost(input, defaults) ==
  IF input.shippingCostType = Some("percent") /\ IsDefined(input.shippingCostPercent)
  THEN Mul(input.aov, Div(Get(input.shippingCostPercent), N(100)))
  ELSE IF IsDefined(input.shippingCost) THEN Get(input.shippingCost)
  ELSE defaults.shippingCost

\* Mutant: the gross margin takes precedence over an explicit product cost
\* (the precedence the forward calculator uses for its margin).
resolveProductCostMarginFirst(input, defaults) ==
  IF IsDefined(input.grossMargin)
  THEN Mul(input.aov, Sub(N(1), Div(Get(input.grossMargin), N(100))))
  ELSE IF IsDefined(input.productCost) THEN Get(input.productCost)
  ELSE Mul(input.aov, Sub(N(1), defaults.margin))

\* Product cost: explicit cost, else from the gross margin, else from the
\* industry default margin.
resolveProductCost(input, defaults) ==
  IF IsDefined(input.productCost) THEN Get(input.productCost)
  ELSE IF IsDefined(input.grossMargin)
       THEN Mul(input.aov, Sub(N(1), Div(Get(input.grossMargin), N(100))))
  ELSE Mul(input.aov, Sub(N(1), defaults.margin))

computeUnitEconomics(input) ==
  LET defaults == industryDefaults[input.industry]
      aov == input.aov
      productCost == resolveProductCost(input, defaults)
      returnRate ==
        IF IsDefined(input.returnRate) THEN Div(Get(input.returnRate), N(100))
        ELSE defaults.returnRate
      productCostEffective == Mul(productCost, Add(N(1), returnRate))
      shippingCost == resolveShippingCost(input, defaults)
      paymentFeeRate ==
        IF IsDefined(input.paymentFee) THEN Div(Get(input.paymentFee), N(100))
        ELSE defaults.paymentFee
      paymentFee == Mul(aov, paymentFeeRate)
      contributionBeforeAds ==
        Sub(aov, Add(Add(productCostEffective, shippingCost), paymentFee))
      contributionRate ==
        IF Gt(aov, N(0)) THEN Div(contributionBeforeAds, aov) ELSE N(0)
  IN [aov |-> aov,
      productCost |-> productCost,
      productCostEffective |-> productCostEffective,
      shippingCost |-> shippingCost,
      paymentFee |-> paymentFee,
      contributionBeforeAds |-> contributionBeforeAds,
      contributionRate |-> contributionRate]

\* Mutant: the reciprocal as a fraction instead of a percent.
cosOfFraction(roas) == IF isFinite(roas) THEN Div(N(1), roas) ELSE N(0)

\* COS is the percent reciprocal of a ROAS, 0 when the ROAS is not finite.
cosOf(roas) == IF isFinite(roas) THEN Mul(Div(N(1), roas), N(100)) ELSE N(0)

\* effectiveAov = ltvMode && ltvMultiplier ? aov * ltvMultiplier : aov
effectiveAovOf(aov, ltvMultiplier, ltvMode) ==
  IF ltvMode = Some(TRUE) /\ Truthy(ltvMultiplier)
  THEN Mul(aov, Get(ltvMultiplier)) ELSE aov

\* Mutants of computeRoasThresholds: strict makes targetImpossible use < 0.
thresholdsVariant(unitEconomics, effectiveAov, desiredMarginOfAov, strict) ==
  LET breakEvenRoas ==
        IF Gt(unitEconomics.contributionBeforeAds, N(0))
        THEN Div(effectiveAov, unitEconomics.contributionBeforeAds)
        ELSE Infinity
      maxAdCostTarget ==
        Sub(unitEconomics.contributionBeforeAds, Mul(effectiveAov, desiredMarginOfAov))
      targetRoas ==
        IF Gt(maxAdCostTarget, N(0)) THEN Div(effectiveAov, maxAdCostTarget)
        ELSE Infinity
  IN [breakEvenRoas |-> breakEvenRoas,
      targetRoas |-> targetRoas,
      breakEvenCos |-> IF isFinite(breakEvenRoas)
                       THEN Mul(Div(N(1), breakEvenRoas), N(100)) ELSE N(0),
      targetCos |-> IF isFinite(targetRoas)
                    THEN Mul(Div(N(1), targetRoas), N(100)) ELSE N(0),
      targetImpossible |->
        IF strict THEN Lt(maxAdCostTarget, N(0)) ELSE Le(maxAdCostTarget, N(0)),
      maxAdCost |-> unitEconomics.contributionBeforeAds,
      maxAdCostTarget |-> maxAdCostTarget]

\* Mutant: a target that costs exactly the whole contribution counts as reachable.
computeRoasThresholdsStrictImpossible(unitEconomics, aov, desiredMarginOfAov, ltvMultiplier, ltvMode) ==
  thresholdsVariant(unitEconomics, effectiveAovOf(aov, ltvMultiplier, ltvMode),
                    desiredMarginOfAov, TRUE)

\* Mutant: a desired margin of 0 is taken as missing and replaced by 20 %.
computeRoasThresholdsFalsyMargin(unitEconomics, aov, desiredMarginOfAov, ltvMultiplier, ltvMode) ==
  thresholdsVariant(unitEconomics, effectiveAovOf(aov, ltvMultiplier, ltvMode),
                    IF desiredMarginOfAov = N(0) THEN R(1, 5) ELSE desiredMarginOfAov,
                    FALSE)

\* Mutant: the desired margin is added to the ad budget instead of taken from it.
computeRoasThresholdsMarginAdded(unitEconomics, aov, desiredMarginOfAov, ltvMultiplier, ltvMode) ==
  thresholdsVariant(unitEconomics, effectiveAovOf(aov, ltvMultiplier, ltvMode),
                    Neg(desiredMarginOfAov), FALSE)

computeRoasThresholds(unitEconomics, aov, desiredMarginOfAov, ltvMultiplier, ltvMode) ==
  LET effectiveAov == effectiveAovOf(aov, ltvMultiplier, ltvMode)
      breakEvenRoas ==
        IF Gt(unitEconomics.contributionBeforeAds, N(0))
        THEN Div(effectiveAov, unitEconomics.contributionBeforeAds)
        ELSE Infinity
      maxAdCostTarget ==
        Sub(unitEconomics.contributionBeforeAds, Mul(effectiveAov, desiredMarginOfAov))
      targetImpossible == Le(maxAdCostTarget, N(0))
      targetRoas ==
        IF Gt(maxAdCostTarget, N(0)) THEN Div(effectiveAov, maxAdCostTarget)
        ELSE Infinity
  IN [breakEvenRoas |-> breakEvenRoas,
      targetRoas |-> targetRoas,
      breakEvenCos |-> cosOf(breakEvenRoas),
      targetCos |-> cosOf(targetRoas),
      targetImpossible |-> targetImpossible,
      maxAdCost |-> unitEconomics.contributionBeforeAds,
      maxAdCostTarget |-> maxAdCostTarget]

-----------------------------------------------------------------------------
(* lib/calculations.ts: the forward calculator                             *)

\* Number of assumptions whose source is 'user'.
userInputCount(input) ==
  (IF IsDefined(input.grossMargin) \/ IsDefined(input.productCost) THEN 1 ELSE 0)
  + (IF IsDefined(input.returnRate) THEN 1 ELSE 0)
  + (IF (input.shippingCostType = Some("percent") /\ IsDefined(input.shippingCostPercent))
        \/ IsDefined(input.shippingCost) THEN 1 ELSE 0)
  + (IF IsDefined(input.paymentFee) THEN 1 ELSE 0)
  + (IF IsDefined(input.ltvMultiplier) THEN 1 ELSE 0)

calculateBreakEven(input) ==
  LET defaults == industryDefaults[input.industry]
      margin ==
        IF IsDefined(input.grossMargin) THEN Div(Get(input.grossMargin), N(100))
        ELSE IF IsDefined(input.productCost)
             THEN Div(Sub(input.aov, Get(input.productCost)), input.aov)
        ELSE defaults.margin
      returnRate ==
        IF IsDefined(input.returnRate) THEN Div(Get(input.returnRate), N(100))
        ELSE defaults.returnRate
      shippingCost == resolveShippingCost(input, defaults)
      paymentFee ==
        IF IsDefined(input.paymentFee) THEN Div(Get(input.paymentFee), N(100))
        ELSE defaults.paymentFee
      ltvMultiplier ==
        IF IsDefined(input.ltvMultiplier) THEN Get(input.ltvMultiplier)
        ELSE defaults.ltvMultiplier
      effectiveRevenue == Mul(input.aov, Sub(N(1), returnRate))
      paymentCost == Mul(input.aov, paymentFee)
      netProfitPerOrder ==
        Sub(Sub(Mul(effectiveRevenue, margin), shippingCost), paymentCost)
      breakEvenRoas ==
        IF Gt(netProfitPerOrder, N(0)) THEN Div(input.aov, netProfitPerOrder)
        ELSE Infinity
      maxCpaWithLtv == Mul(netProfitPerOrder, ltvMultiplier)
      desiredProfitMargin ==
        IF IsDefined(input.desiredProfitMargin) THEN Get(input.desiredProfitMargin)
        ELSE N(20)
      profitRetention == Sub(N(1), Div(desiredProfitMargin, N(100)))
      targetRoas ==
        IF Gt(netProfitPerOrder, N(0))
        THEN Div(input.aov, Mul(netProfitPerOrder, profitRetention))
        ELSE Infinity
      count == userInputCount(input)
  IN [breakEvenRoas |-> breakEvenRoas,
      targetRoas |-> targetRoas,
      breakEvenCos |-> cosOf(breakEvenRoas),
      targetCos |-> cosOf(targetRoas),
      desiredProfitMargin |-> desiredProfitMargin,
      maxCpa |-> netProfitPerOrder,
      maxCpaWithLtv |-> maxCpaWithLtv,
      breakEvenRoasWithLtv |->
        IF Gt(maxCpaWithLtv, N(0)) THEN Div(input.aov, maxCpaWithLtv) ELSE Infinity,
      confidenceLevel |->
        IF count >= 4 THEN "high" ELSE IF count >= 2 THEN "medium" ELSE "low",
      netProfitPerOrder |-> netProfitPerOrder]

-----------------------------------------------------------------------------
(* lib/calculations.ts: status classification                              *)

\* Mutant: the break-even boundary itself counts as impossible.
determineStatusInclusiveBreakEven(requiredROAS, breakEvenROAS, targetROAS) ==
  IF Le(requiredROAS, breakEvenROAS) THEN "impossible"
  ELSE IF Le(requiredROAS, targetROAS) THEN "achievable"
  ELSE "tight"

\* Mutant: the target is compared before the break-even.
determineStatusTargetFirst(requiredROAS, breakEvenROAS, targetROAS) ==
  IF Le(requiredROAS, targetROAS) THEN "achievable"
  ELSE IF Lt(requiredROAS, breakEvenROAS) THEN "impossible"
  ELSE "tight"

determineStatus(requiredROAS, breakEvenROAS, targetROAS) ==
  IF Lt(requiredROAS, breakEvenROAS) THEN "impossible"
  ELSE IF Le(requiredROAS, targetROAS) THEN "achievable"
  ELSE "tight"

\* The headline of getStatusMessages; statusDetails is formatted text
\* (toFixed) and is not modelled.
statusMessageOf(status) ==
  CASE status = "achievable" -> "Realistiskt uppnaeligt"
    [] status = "tight" -> "Utmanande men mojligt"
    [] status = "impossible" -> "Omojligt med nuvarande ekonomi"

-----------------------------------------------------------------------------
(* lib/scenarios.ts: the scenario generator calculateReverse imports       *)
(* (balance / maxRevenue / maxProfit). The reasoning texts are formatted   *)
(* strings and are not modelled.                                           *)

calculateTargetRoasForMargin(aov, netProfitPerOrder, profitMargin) ==
  IF Le(netProfitPerOrder, N(0)) THEN Infinity
  ELSE LET profitRetention == Sub(N(1), profitMargin)
       IN IF Le(profitRetention, N(0)) THEN Infinity
          ELSE Div(aov, Mul(netProfitPerOrder, profitRetention))

calculateProfitDelta(revenue, aov, netProfitPerOrder, profitMargin) ==
  LET orders == Div(revenue, aov)
  IN Mul(Mul(orders, netProfitPerOrder), profitMargin)

deltaPercent(value, base) == Mul(Div(Sub(value, base), base), N(100))

legacyGenerateScenarios(in, targetROAS, netProfitPerOrder) ==
  LET revenueTarget == in.revenueTarget
      mediaBudget == in.mediaBudget
      profitMarginGoal == in.profitMarginGoal
      aov == in.economics.aov
      balanceBudget == Div(revenueTarget, targetROAS)
      balanceRevenue == revenueTarget
      maxRevenueBudget == Div(revenueTarget, targetROAS)
      maxRevenueRevenue == revenueTarget
      maxProfitTargetMargin == Min(Mul(profitMarginGoal, R(125, 100)), R(90, 100))
      maxProfitROAS ==
        calculateTargetRoasForMargin(aov, netProfitPerOrder, maxProfitTargetMargin)
      maxProfitBudget == Div(revenueTarget, maxProfitROAS)
      maxProfitRevenue == Mul(maxProfitBudget, maxProfitROAS)
  IN [balance |->
        [name |-> "balance",
         recommendedBudget |-> balanceBudget,
         expectedRevenue |-> balanceRevenue,
         requiredROAS |-> targetROAS,
         requiredCOS |-> cosOf(targetROAS),
         achievedProfitMargin |-> profitMarginGoal,
         budgetDelta |-> Sub(balanceBudget, mediaBudget),
         budgetDeltaPercent |-> deltaPercent(balanceBudget, mediaBudget),
         revenueDelta |-> N(0),
         revenueDeltaPercent |-> N(0),
         profitDelta |->
           calculateProfitDelta(balanceRevenue, aov, netProfitPerOrder, profitMarginGoal),
         isRecommended |-> TRUE],
      maxRevenue |->
        [name |-> "maxRevenue",
         recommendedBudget |-> maxRevenueBudget,
         expectedRevenue |-> maxRevenueRevenue,
         requiredROAS |-> targetROAS,
         requiredCOS |-> cosOf(targetROAS),
         achievedProfitMargin |-> profitMarginGoal,
         budgetDelta |-> Sub(maxRevenueBudget, mediaBudget),
         budgetDeltaPercent |-> deltaPercent(maxRevenueBudget, mediaBudget),
         revenueDelta |-> N(0),
         revenueDeltaPercent |-> N(0),
         profitDelta |->
           calculateProfitDelta(maxRevenueRevenue, aov, netProfitPerOrder, profitMarginGoal),
         isRecommended |-> FALSE],
      maxProfit |->
        [name |-> "maxProfit",
         recommendedBudget |-> maxProfitBudget,
         expectedRevenue |-> maxProfitRevenue,
         requiredROAS |-> maxProfitROAS,
         requiredCOS |-> cosOf(maxProfitROAS),
         achievedProfitMargin |-> maxProfitTargetMargin,
         budgetDelta |-> Sub(maxProfitBudget, mediaBudget),
         budgetDeltaPercent |-> deltaPercent(maxProfitBudget, mediaBudget),
         revenueDelta |-> Sub(maxProfitRevenue, revenueTarget),
         revenueDeltaPercent |-> deltaPercent(maxProfitRevenue, revenueTarget),
         profitDelta |->
           calculateProfitDelta(maxProfitRevenue, aov, netProfitPerOrder,
                                maxProfitTargetMargin),
         isRecommended |-> FALSE]]

legacyUpdateScenarioRecommendations(scenarios, status) ==
  [balance    |-> [scenarios.balance EXCEPT !.isRecommended = (status = "achievable")],
   maxRevenue |-> [scenarios.maxRevenue EXCEPT !.isRecommended = (status = "impossible")],
   maxProfit  |-> [scenarios.maxProfit EXCEPT !.isRecommended = (status = "tight")]]

-----------------------------------------------------------------------------
(* scenarios (budgetForTarget / maxRevenueGivenBudget /                    *)
(* maxProfitGivenMinRevenue): the five-argument generator.                 *)

finiteOr(x, fallback) == IF isFinite(x) THEN x ELSE fallback

\* isFinite(targetROAS) && targetROAS > 0
finitePositive(x) == isFinite(x) /\ Gt(x, N(0))

DefaultMinRevenuePercent == 80

\* Mutant: a missing minRevenuePercent defaults to the full revenue target.
minRevenuePercentOfFullTarget(in) ==
  IF IsDefined(in.minRevenuePercent) THEN Get(in.minRevenuePercent) ELSE N(100)

minRevenuePercentOf(in) ==
  IF IsDefined(in.minRevenuePercent) THEN Get(in.minRevenuePercent)
  ELSE N(DefaultMinRevenuePercent)

\* Mutant: the ad cost of an order is the share 1 / targetROAS, not that
\* share of the AOV.
scenarioProfitCostShare(revenue, aov, targetROAS, contributionBeforeAds) ==
  LET orders == IF Gt(aov, N(0)) THEN Div(revenue, aov) ELSE N(0)
      adCostPerOrder ==
        IF finitePositive(targetROAS) THEN Div(N(1), targetROAS) ELSE N(0)
      profitPerOrder == Sub(contributionBeforeAds, adCostPerOrder)
  IN Mul(orders, profitPerOrder)

\* orders x (contributionBeforeAds - adCostPerOrder), as computed for each
\* of the three scenarios.
scenarioProfit(revenue, aov, targetROAS, contributionBeforeAds) ==
  LET orders == IF Gt(aov, N(0)) THEN Div(revenue, aov) ELSE N(0)
      adCostPerOrder ==
        IF finitePositive(targetROAS) THEN Div(aov, targetROAS) ELSE N(0)
      profitPerOrder == Sub(contributionBeforeAds, adCostPerOrder)
  IN Mul(orders, profitPerOrder)

\* revenueTarget > 0 ? (delta / revenueTarget) * 100 : 0
percentOfTarget(delta, revenueTarget) ==
  IF Gt(revenueTarget, N(0)) THEN Mul(Div(delta, revenueTarget), N(100)) ELSE N(0)

\* The reasoning texts are formatted strings; only which of the two
\* templates is used is modelled.
reasoningOf(targetImpossible) ==
  IF targetImpossible THEN "margin exceeds contribution" ELSE "formatted figures"

\* Scenario 1: budget required to reach the revenue target at target ROAS.
budgetForTarget(in, targetROAS, contributionBeforeAds, targetImpossible) ==
  LET mediaBudget == in.mediaBudget
      s1Budget ==
        IF finitePositive(targetROAS) THEN Div(in.revenueTarget, targetROAS)
        ELSE Infinity
      s1Revenue == in.revenueTarget
      s1Profit ==
        scenarioProfit(s1Revenue, in.economics.aov, targetROAS, contributionBeforeAds)
  IN [name |-> "budgetForTarget",
      recommendedBudget |-> finiteOr(s1Budget, mediaBudget),
      expectedRevenue |-> s1Revenue,
      requiredROAS |-> targetROAS,
      requiredCOS |-> cosOf(targetROAS),
      achievedProfitMargin |-> in.profitMarginGoal,
      budgetDelta |-> Sub(finiteOr(s1Budget, mediaBudget), mediaBudget),
      budgetDeltaPercent |->
        IF isFinite(s1Budget) THEN deltaPercent(s1Budget, mediaBudget) ELSE N(0),
      revenueDelta |-> N(0),
      revenueDeltaPercent |-> N(0),
      profitDelta |-> finiteOr(s1Profit, N(0)),
      isRecommended |-> TRUE,
      reasoning |-> reasoningOf(targetImpossible)]

\* Scenario 2: maximum revenue at the current budget and target ROAS.
maxRevenueGivenBudget(in, targetROAS, contributionBeforeAds, targetImpossible) ==
  LET s2Revenue ==
        IF isFinite(targetROAS) THEN Mul(in.mediaBudget, targetROAS) ELSE N(0)
      s2Budget == in.mediaBudget
      s2Profit ==
        scenarioProfit(s2Revenue, in.economics.aov, targetROAS, contributionBeforeAds)
      s2RevenueDelta == Sub(s2Revenue, in.revenueTarget)
  IN [name |-> "maxRevenueGivenBudget",
      recommendedBudget |-> s2Budget,
      expectedRevenue |-> s2Revenue,
      requiredROAS |-> targetROAS,
      requiredCOS |-> cosOf(targetROAS),
      achievedProfitMargin |-> in.profitMarginGoal,
      budgetDelta |-> N(0),
      budgetDeltaPercent |-> N(0),
      revenueDelta |-> s2RevenueDelta,
      revenueDeltaPercent |-> percentOfTarget(s2RevenueDelta, in.revenueTarget),
      profitDelta |-> finiteOr(s2Profit, N(0)),
      isRecommended |-> FALSE,
      reasoning |-> reasoningOf(targetImpossible)]

\* Scenario 3: maximum profit at the minimum acceptable revenue.
maxProfitGivenMinRevenue(in, targetROAS, contributionBeforeAds, targetImpossible) ==
  LET mediaBudget == in.mediaBudget
      s3MinRevenue == Mul(in.revenueTarget, Div(minRevenuePercentOf(in), N(100)))
      s3Budget ==
        IF finitePositive(targetROAS) THEN Div(s3MinRevenue, targetROAS)
        ELSE mediaBudget
      s3Revenue == s3MinRevenue
      s3Profit ==
        scenarioProfit(s3Revenue, in.economics.aov, targetROAS, contributionBeforeAds)
      s3RevenueDelta == Sub(s3Revenue, in.revenueTarget)
  IN [name |-> "maxProfitGivenMinRevenue",
      recommendedBudget |-> finiteOr(s3Budget, mediaBudget),
      expectedRevenue |-> s3Revenue,
      requiredROAS |-> targetROAS,
      requiredCOS |-> cosOf(targetROAS),
      achievedProfitMargin |-> in.profitMarginGoal,
      budgetDelta |-> Sub(finiteOr(s3Budget, mediaBudget), mediaBudget),
      budgetDeltaPercent |->
        IF isFinite(s3Budget) THEN deltaPercent(s3Budget, mediaBudget) ELSE N(0),
      revenueDelta |-> s3RevenueDelta,
      revenueDeltaPercent |-> percentOfTarget(s3RevenueDelta, in.revenueTarget),
      profitDelta |-> finiteOr(s3Profit, N(0)),
      isRecommended |-> FALSE,
      reasoning |-> reasoningOf(targetImpossible)]

\* Mutant: scenario 2 takes its budget from the revenue target, as the
\* maxRevenue scenario of lib/scenarios.ts does.
generateScenariosBudgetFromTarget(in, targetROAS, netProfitPerOrder, contributionBeforeAds, targetImpossible) ==
  LET budget == Div(in.revenueTarget, targetROAS)
  IN [budgetForTarget |->
        budgetForTarget(in, targetROAS, contributionBeforeAds, targetImpossible),
      maxRevenueGivenBudget |->
        [maxRevenueGivenBudget(in, targetROAS, contributionBeforeAds, targetImpossible)
           EXCEPT !.recommendedBudget = budget,
                  !.budgetDelta = Sub(budget, in.mediaBudget),
                  !.budgetDeltaPercent = deltaPercent(budget, in.mediaBudget)],
      maxProfitGivenMinRevenue |->
        maxProfitGivenMinRevenue(in, targetROAS, contributionBeforeAds,
                                 targetImpossible)]

\* netProfitPerOrder is accepted and not used by this generator.
generateScenarios(in, targetROAS, netProfitPerOrder, contributionBeforeAds, targetImpossible) ==
  [budgetForTarget |->
     budgetForTarget(in, targetROAS, contributionBeforeAds, targetImpossible),
   maxRevenueGivenBudget |->
     maxRevenueGivenBudget(in, targetROAS, contributionBeforeAds, targetImpossible),
   maxProfitGivenMinRevenue |->
     maxProfitGivenMinRevenue(in, targetROAS, contributionBeforeAds, targetImpossible)]

\* Mutant: the flags of the input are not reset before one is set.
updateScenarioRecommendationsNoReset(scenarios, status) ==
  [budgetForTarget |->
     [scenarios.budgetForTarget EXCEPT
        !.isRecommended = (@ \/ status = "achievable")],
   maxRevenueGivenBudget |->
     [scenarios.maxRevenueGivenBudget EXCEPT
        !.isRecommended = (@ \/ status = "impossible")],
   maxProfitGivenMinRevenue |->
     [scenarios.maxProfitGivenMinRevenue EXCEPT
        !.isRecommended = (@ \/ status = "tight")]]

updateScenarioRecommendations(scenarios, status) ==
  [budgetForTarget |->
     [scenarios.budgetForTarget EXCEPT !.isRecommended = (status = "achievable")],
   maxRevenueGivenBudget |->
     [scenarios.maxRevenueGivenBudget EXCEPT !.isRecommended = (status = "impossible")],
   maxProfitGivenMinRevenue |->
     [scenarios.maxProfitGivenMinRevenue EXCEPT !.isRecommended = (status = "tight")]]

\* Objects and references. A heap is a sequence of objects and a reference is
\* an index into it; a ScenarioSet holds one reference per scenario.
deref(heap, scenarios) == [k \in DOMAIN scenarios |-> heap[scenarios[k]]]

\* Position of a scenario among the three object literals of `updated`.
literalOrder(name) ==
  CASE name = "budgetForTarget" -> 1
    [] name = "maxRevenueGivenBudget" -> 2
    [] name = "maxProfitGivenMinRevenue" -> 3

\* updated.<name>.isRecommended = <flag>, for the three scenarios: the
\* assignments write to the objects `updated` refers to.
assignIsRecommended(heap, updated, flags) ==
  [r \in DOMAIN heap |->
     IF \E k \in DOMAIN updated : updated[k] = r
     THEN LET k == CHOOSE k \in DOMAIN updated : updated[k] = r
          IN [heap[r] EXCEPT !.isRecommended = flags[k].isRecommended]
     ELSE heap[r]]

\* Mutant: `updated` refers to the caller's objects instead of copies.
updateScenarioRecommendationsAliased(heap, scenarios, status) ==
  [heap |-> assignIsRecommended(heap, scenarios,
              updateScenarioRecommendations(deref(heap, scenarios), status)),
   returned |-> scenarios]

\* The call on objects: { ...scenarios.x } allocates a copy of each scenario,
\* the assignments go to the copies, and the copies are returned.
updateScenarioRecommendationsOnHeap(heap, scenarios, status) ==
  LET updated == [k \in DOMAIN scenarios |-> Len(heap) + literalOrder(k)]
      copies == [i \in 1..3 |->
                   heap[scenarios[CHOOSE k \in DOMAIN scenarios : literalOrder(k) = i]]]
  IN [heap |-> assignIsRecommended(heap \o copies, updated,
                 updateScenarioRecommendations(deref(heap, scenarios), status)),
      returned |-> updated]

-----------------------------------------------------------------------------
(* lib/calculations.ts: the reverse calculator                             *)

\* Mutant: the AOV is validated before the profit margin goal.
validationErrorAovFirst(in) ==
  IF Le(in.revenueTarget, N(0)) THEN "Intaktsmalet maste vara storre an 0"
  ELSE IF Le(in.mediaBudget, N(0)) THEN "Mediabudgeten maste vara storre an 0"
  ELSE IF Le(in.economics.aov, N(0)) THEN "AOV maste vara storre an 0"
  ELSE IF Lt(in.profitMarginGoal, N(0)) \/ Gt(in.profitMarginGoal, N(1))
       THEN "Vinstmarginalen maste vara mellan 0 och 1"
  ELSE ""

\* The first validation that fails, in source order; "" when the goal is valid.
validationError(in) ==
  IF Le(in.revenueTarget, N(0)) THEN "Intaktsmalet maste vara storre an 0"
  ELSE IF Le(in.mediaBudget, N(0)) THEN "Mediabudgeten maste vara storre an 0"
  ELSE IF Lt(in.profitMarginGoal, N(0)) \/ Gt(in.profitMarginGoal, N(1))
       THEN "Vinstmarginalen maste vara mellan 0 och 1"
  ELSE IF Le(in.economics.aov, N(0)) THEN "AOV maste vara storre an 0"
  ELSE ""

\* Steps 1 and 3-6 of calculateReverse, given the forward calculator's output.
reverseOutputs(in, forwardOutput) ==
  LET requiredROAS == Div(in.revenueTarget, in.mediaBudget)
      requiredCOS == Mul(Div(N(1), requiredROAS), N(100))
      breakEvenROAS == forwardOutput.breakEvenRoas
      targetROAS == forwardOutput.targetRoas
      status == determineStatus(requiredROAS, breakEvenROAS, targetROAS)
      baseScenarios ==
        legacyGenerateScenarios(in, targetROAS, forwardOutput.netProfitPerOrder)
  IN [threw |-> FALSE,
      error |-> "",
      requiredROAS |-> requiredROAS,
      requiredCOS |-> requiredCOS,
      breakEvenROAS |-> breakEvenROAS,
      targetROAS |-> targetROAS,
      status |-> status,
      statusMessage |-> statusMessageOf(status),
      scenarios |-> legacyUpdateScenarioRecommendations(baseScenarios, status)]

calculateReverse(in) ==
  IF validationError(in) # ""
  THEN [threw |-> TRUE, error |-> validationError(in)]
  ELSE
    LET forwardInputs ==
          [in.economics EXCEPT
             !.desiredProfitMargin = Some(Mul(in.profitMarginGoal, N(100)))]
    IN \* forwardOutput is computed once and then used as a value
       CHOOSE out \in { reverseOutputs(in, forwardOutput) :
                          forwardOutput \in {calculateBreakEven(forwardInputs)} } : TRUE

-----------------------------------------------------------------------------
(* lib/roi-simulator.ts: 12-month projection of a scenario                 *)

MONTH_LABELS ==
  <<"Jan", "Feb", "Mar", "Apr", "Maj", "Jun",
    "Jul", "Aug", "Sep", "Okt", "Nov", "Dec">>

\* Mutant: the presets differ in their ramp-up only.
getDefaultConfigNoVariance(roiCase) ==
  CASE roiCase = "worst" -> [case |-> "worst", rampUpMonths |-> 4, variancePercent |-> N(0)]
    [] roiCase = "expected" -> [case |-> "expected", rampUpMonths |-> 3, variancePercent |-> N(0)]
    [] roiCase = "best" -> [case |-> "best", rampUpMonths |-> 2, variancePercent |-> N(0)]

getDefaultConfig(roiCase) ==
  CASE roiCase = "worst" -> [case |-> "worst", rampUpMonths |-> 4, variancePercent |-> N(-20)]
    [] roiCase = "expected" -> [case |-> "expected", rampUpMonths |-> 3, variancePercent |-> N(0)]
    [] roiCase = "best" -> [case |-> "best", rampUpMonths |-> 2, variancePercent |-> N(15)]

months == 12

\* Mutant: the ramp starts from no spend at all instead of 30 %.
rampFactorOfFromZero(m, rampUpMonths) ==
  IF m < rampUpMonths THEN Div(N(m), N(rampUpMonths)) ELSE N(1)

\* m < rampUpMonths ? 0.3 + 0.7 * (m / rampUpMonths) : 1.0, for the loop index m.
rampFactorOf(m, rampUpMonths) ==
  IF m < rampUpMonths
  THEN Add(R(3, 10), Mul(R(7, 10), Div(N(m), N(rampUpMonths))))
  ELSE N(1)

\* Mutant: the month is overwritten whenever the cumulative profit is positive.
detectBreakEvenLast(breakEvenMonth, cumulativeProfitDo, m) ==
  IF Gt(cumulativeProfitDo, N(0)) THEN m + 1 ELSE breakEvenMonth

\* if (breakEvenMonth === -1 && cumulativeProfitDo > 0) breakEvenMonth = m + 1
detectBreakEven(breakEvenMonth, cumulativeProfitDo, m) ==
  IF breakEvenMonth = -1 /\ Gt(cumulativeProfitDo, N(0)) THEN m + 1
  ELSE breakEvenMonth

MonthlyProjection(m, revenue, adSpend, profit, cumulativeProfit, cumulativeRevenue) ==
  [month |-> m + 1, label |-> MONTH_LABELS[m + 1], revenue |-> revenue,
   adSpend |-> adSpend, profit |-> profit,
   cumulativeProfit |-> cumulativeProfit, cumulativeRevenue |-> cumulativeRevenue]

\* The loop variables before the first iteration.
roiLoopStart ==
  [ifWeDo |-> <<>>, ifWeWait |-> <<>>,
   cumulativeProfitDo |-> N(0), cumulativeRevenueDo |-> N(0),
   cumulativeProfitWait |-> N(0), cumulativeRevenueWait |-> N(0),
   breakEvenMonth |-> -1]

\* Sum of the adSpend of a path (reduce from 0).
totalAdSpendOf(path) ==
  LET sum[i \in 0..Len(path)] ==
        IF i = 0 THEN N(0) ELSE Add(sum[i - 1], path[i].adSpend)
  IN sum[Len(path)]

\* The returned object, from the loop variables after the last iteration.
roiResult(st) ==
  LET totalRevenueDelta == Sub(st.cumulativeRevenueDo, st.cumulativeRevenueWait)
      totalProfitDelta == Sub(st.cumulativeProfitDo, st.cumulativeProfitWait)
      totalAdSpend == totalAdSpendOf(st.ifWeDo)
  IN [ifWeDo |-> st.ifWeDo,
      ifWeWait |-> st.ifWeWait,
      totalRevenueDelta |-> totalRevenueDelta,
      totalProfitDelta |-> totalProfitDelta,
      breakEvenMonth |->
        IF st.breakEvenMonth = -1 THEN months + 1 ELSE st.breakEvenMonth,
      roi12Month |->
        IF Gt(totalAdSpend, N(0))
        THEN Mul(Div(totalProfitDelta, totalAdSpend), N(100)) ELSE N(0)]

\* One iteration of the loop of simulateROI: the wait path has no paid media.
simulateROIMonth(st, m, in, scenario, config) ==
  LET monthlyBudget == Div(in.mediaBudget, N(months))
      adjustedROAS ==
        Mul(scenario.requiredROAS, Add(N(1), Div(config.variancePercent, N(100))))
      currentBudget == Mul(monthlyBudget, rampFactorOf(m, config.rampUpMonths))
      adRevenue == Mul(currentBudget, adjustedROAS)
      monthlyProfit == Sub(Mul(adRevenue, scenario.achievedProfitMargin), currentBudget)
      cumulativeProfitDo == Add(st.cumulativeProfitDo, monthlyProfit)
      cumulativeRevenueDo == Add(st.cumulativeRevenueDo, adRevenue)
  IN [ifWeDo |-> Append(st.ifWeDo,
                   MonthlyProjection(m, adRevenue, currentBudget, monthlyProfit,
                                     cumulativeProfitDo, cumulativeRevenueDo)),
      ifWeWait |-> Append(st.ifWeWait,
                     MonthlyProjection(m, N(0), N(0), N(0), N(0), N(0))),
      cumulativeProfitDo |-> cumulativeProfitDo,
      cumulativeRevenueDo |-> cumulativeRevenueDo,
      cumulativeProfitWait |-> N(0),
      cumulativeRevenueWait |-> N(0),
      breakEvenMonth |-> detectBreakEven(st.breakEvenMonth, cumulativeProfitDo, m)]

RECURSIVE simulateROILoop(_, _, _, _, _)
simulateROILoop(st, m, in, scenario, config) ==
  IF m = months THEN st
  ELSE CHOOSE end \in { simulateROILoop(next, m + 1, in, scenario, config) :
                          next \in {simulateROIMonth(st, m, in, scenario, config)} } : TRUE

simulateROI(in, scenario, config) ==
  roiResult(simulateROILoop(roiLoopStart, 0, in, scenario, config))

\* The revision of roi-simulator.ts with an organic baseline: the budget is
\* the scenario's, the ROAS ramps with the spend, and the wait path earns
\* 10 % of the revenue target.
simulateROIOrganicBaselineMonth(st, m, in, scenario, config) ==
  LET monthlyBudget == Div(scenario.recommendedBudget, N(months))
      adjustedROAS ==
        Mul(scenario.requiredROAS, Add(N(1), Div(config.variancePercent, N(100))))
      baselineMonthlyRevenue == Div(Mul(in.revenueTarget, R(1, 10)), N(months))
      rampFactor == rampFactorOf(m, config.rampUpMonths)
      currentBudget == Mul(monthlyBudget, rampFactor)
      currentROAS == Mul(adjustedROAS, rampFactor)
      adRevenue == Mul(currentBudget, currentROAS)
      totalRevenue == Add(adRevenue, baselineMonthlyRevenue)
      profitMargin == scenario.achievedProfitMargin
      monthlyProfit == Sub(Mul(adRevenue, profitMargin), currentBudget)
      cumulativeProfitDo == Add(st.cumulativeProfitDo, monthlyProfit)
      cumulativeRevenueDo == Add(st.cumulativeRevenueDo, totalRevenue)
      waitProfit == Mul(baselineMonthlyRevenue, profitMargin)
      cumulativeProfitWait == Add(st.cumulativeProfitWait, waitProfit)
      cumulativeRevenueWait == Add(st.cumulativeRevenueWait, baselineMonthlyRevenue)
  IN [ifWeDo |-> Append(st.ifWeDo,
                   MonthlyProjection(m, totalRevenue, currentBudget, monthlyProfit,
                                     cumulativeProfitDo, cumulativeRevenueDo)),
      ifWeWait |-> Append(st.ifWeWait,
                     MonthlyProjection(m, baselineMonthlyRevenue, N(0), waitProfit,
                                       cumulativeProfitWait, cumulativeRevenueWait)),
      cumulativeProfitDo |-> cumulativeProfitDo,
      cumulativeRevenueDo |-> cumulativeRevenueDo,
      cumulativeProfitWait |-> cumulativeProfitWait,
      cumulativeRevenueWait |-> cumulativeRevenueWait,
      breakEvenMonth |-> detectBreakEven(st.breakEvenMonth, cumulativeProfitDo, m)]

RECURSIVE simulateROIOrganicBaselineLoop(_, _, _, _, _)
simulateROIOrganicBaselineLoop(st, m, in, scenario, config) ==
  IF m = months THEN st
  ELSE CHOOSE end \in
         { simulateROIOrganicBaselineLoop(next, m + 1, in, scenario, config) :
             next \in {simulateROIOrganicBaselineMonth(st, m, in, scenario, config)} } : TRUE

simulateROIOrganicBaseline(in, scenario, config) ==
  roiResult(simulateROIOrganicBaselineLoop(roiLoopStart, 0, in, scenario, config))

-----------------------------------------------------------------------------
(* lib/volume-model.ts: calibrated volume model and optimal-budget search  *)
(*                                                                         *)
(* The search multiplies by 2 - phi with phi = (1 + sqrt 5) / 2, so its    *)
(* numbers are kept exactly as (p + q sqrt 5) / d with integers p, q and   *)
(* d > 0 in lowest terms. Floating-point rounding is not modelled.         *)

Gcd3(a, b, c) == Gcd(Gcd(Abs(a), Abs(b)), Abs(c))

Q5(p, q, d) ==
  LET s == IF d < 0 THEN -1 ELSE 1
      g == Gcd3(p, q, d)
  IN [p |-> (s * p) \div g, q |-> (s * q) \div g, d |-> (s * d) \div g]

Q5OfInt(k) == [p |-> k, q |-> 0, d |-> 1]

\* A finite number of the rest of the model, as a number of the search.
Q5OfNumber(x) == Q5(x.n, 0, x.d)

sqrt5 == [p |-> 0, q |-> 1, d |-> 1]

Q5Add(x, y) == Q5(x.p * y.d + y.p * x.d, x.q * y.d + y.q * x.d, x.d * y.d)

Q5Sub(x, y) == Q5(x.p * y.d - y.p * x.d, x.q * y.d - y.q * x.d, x.d * y.d)

Q5Mul(x, y) == Q5(x.p * y.p + 5 * x.q * y.q, x.p * y.q + x.q * y.p, x.d * y.d)

\* 1 / x for x # 0, through the conjugate.
Q5Recip(x) == Q5(x.d * x.p, -(x.d * x.q), x.p * x.p - 5 * x.q * x.q)

Q5Div(x, y) == Q5Mul(x, Q5Recip(y))

\* Sign of p + q sqrt 5: the larger of |p| and |q| sqrt 5 decides.
Q5Sign(x) ==
  IF Sign(x.p) = Sign(x.q) \/ x.q = 0 THEN Sign(x.p)
  ELSE IF x.p = 0 THEN Sign(x.q)
  ELSE IF x.p * x.p > 5 * x.q * x.q THEN Sign(x.p) ELSE Sign(x.q)

Q5Lt(x, y) == Q5Sign(Q5Sub(x, y)) < 0

Q5Gt(x, y) == Q5Lt(y, x)

Q5Le(x, y) == ~Q5Lt(y, x)

\* Math.exp of a coefficient held as the logarithm of a positive number.
exp(a) == a.ln

\* Math.pow(budget, b) for the integer exponents of the configs drawn.
pow(budget, b) ==
  CASE b = 0 -> Q5OfInt(1)
    [] b = -1 -> Q5Recip(budget)

predictRoas(budget, config) ==
  IF Q5Le(budget, Q5OfInt(0)) THEN Q5OfInt(0)
  ELSE Q5Mul(Q5OfNumber(exp(config.a)), pow(budget, config.b))

predictRevenue(budget, config) ==
  IF Q5Le(budget, Q5OfInt(0)) THEN Q5OfInt(0)
  ELSE Q5Mul(budget, predictRoas(budget, config))

\* profitFn of findOptimalBudget.
profitFn(budget, config, profitMargin) ==
  Q5Sub(Q5Mul(predictRevenue(budget, config), Q5OfNumber(profitMargin)), budget)

phi == Q5Div(Q5Add(Q5OfInt(1), sqrt5), Q5OfInt(2))

resphi == Q5Sub(Q5OfInt(2), phi)

tolerance == 100

maxIter == 100

\* Mutant: the loop also runs on a bracket exactly as wide as the tolerance.
loopContinuesAtTolerance(i, a, b) ==
  i < maxIter /\ Q5Le(Q5OfInt(tolerance), Q5Sub(b, a))

\* i < maxIter && (b - a) > tolerance
loopContinues(i, a, b) ==
  i < maxIter /\ Q5Gt(Q5Sub(b, a), Q5OfInt(tolerance))

\* The variables of findOptimalBudget before the loop.
searchStart(config, profitMargin, minBudget, maxBudget) ==
  LET a == minBudget
      b == maxBudget
      x1 == Q5Add(a, Q5Mul(resphi, Q5Sub(b, a)))
      x2 == Q5Sub(b, Q5Mul(resphi, Q5Sub(b, a)))
  IN [a |-> a, b |-> b, x1 |-> x1, x2 |-> x2,
      f1 |-> profitFn(x1, config, profitMargin),
      f2 |-> profitFn(x2, config, profitMargin), i |-> 0]

\* Mutant: the interior point that is kept does not take its profit along.
searchStepStaleProfit(st, config, profitMargin) ==
  IF Q5Lt(st.f1, st.f2)
  THEN LET a == st.x1
           x2 == Q5Sub(st.b, Q5Mul(resphi, Q5Sub(st.b, a)))
       IN [a |-> a, b |-> st.b, x1 |-> st.x2, x2 |-> x2,
           f1 |-> st.f1, f2 |-> profitFn(x2, config, profitMargin), i |-> st.i + 1]
  ELSE LET b == st.x2
           x1 == Q5Add(st.a, Q5Mul(resphi, Q5Sub(b, st.a)))
       IN [a |-> st.a, b |-> b, x1 |-> x1, x2 |-> st.x1,
           f1 |-> profitFn(x1, config, profitMargin), f2 |-> st.f2, i |-> st.i + 1]

\* One iteration of the loop.
searchStep(st, config, profitMargin) ==
  IF Q5Lt(st.f1, st.f2)
  THEN LET a == st.x1
           x2 == Q5Sub(st.b, Q5Mul(resphi, Q5Sub(st.b, a)))
       IN [a |-> a, b |-> st.b, x1 |-> st.x2, x2 |-> x2,
           f1 |-> st.f2, f2 |-> profitFn(x2, config, profitMargin), i |-> st.i + 1]
  ELSE LET b == st.x2
           x1 == Q5Add(st.a, Q5Mul(resphi, Q5Sub(b, st.a)))
       IN [a |-> st.a, b |-> b, x1 |-> x1, x2 |-> st.x1,
           f1 |-> profitFn(x1, config, profitMargin), f2 |-> st.f1, i |-> st.i + 1]

\* The returned object, from the final bracket.
searchResult(st, config, profitMargin) ==
  LET optimalBudget == Q5Div(Q5Add(st.a, st.b), Q5OfInt(2))
      optimalRevenue == predictRevenue(optimalBudget, config)
  IN [budget |-> optimalBudget,
      revenue |-> optimalRevenue,
      profit |-> Q5Sub(Q5Mul(optimalRevenue, Q5OfNumber(profitMargin)), optimalBudget)]

-----------------------------------------------------------------------------
(* Historical calibration (validateData, runOLS).  A data value is held by *)
(* its sign and by the number Math.log returns for it; two neighbouring    *)
(* floating-point values whose logarithms round to the same number differ  *)
(* in ulp.                                                                 *)

Positive(lg) == [sign |-> 1, log |-> lg, ulp |-> 0]

NextAfter(x) == [x EXCEPT !.ulp = 1]

Zero == [sign |-> 0, log |-> NegInfinity, ulp |-> 0]

Negative(lg) == [sign |-> -1, log |-> lg, ulp |-> 0]

\* d.spend <= 0, d.roas <= 0
IsLe0(x) == x.sign <= 0

\* Math.log
log(x) == IF x.sign > 0 THEN x.log ELSE IF x.sign = 0 THEN NegInfinity ELSE NaN

HistoricalDataPoint(spend, roas) == [spend |-> spend, roas |-> roas]

null == [null |-> TRUE]

\* Array.prototype.reduce((s, v) => s + v, 0)
RECURSIVE SumOf(_)
SumOf(s) == IF s = <<>> THEN N(0) ELSE Add(SumOf(SubSeq(s, 1, Len(s) - 1)), s[Len(s)])

Square(x) == Mul(x, x)

ErrorMessage(text, count) == [text |-> text, count |-> count]

validateDataAnyLength(data) ==
  LET invalidSpend == { i \in 1..Len(data) : IsLe0(data[i].spend) }
      invalidRoas == { i \in 1..Len(data) : IsLe0(data[i].roas) }
      uniqueSpends == { data[i].spend : i \in 1..Len(data) }
      errors ==
        (IF Len(data) < 5
           THEN <<ErrorMessage("Minst 5 datapunkter krävs", <<Len(data)>>)>> ELSE <<>>)
        \o (IF Cardinality(invalidSpend) > 0
              THEN <<ErrorMessage("rad(er) har ogiltigt spendvärde", <<Cardinality(invalidSpend)>>)>>
              ELSE <<>>)
        \o (IF Cardinality(invalidRoas) > 0
              THEN <<ErrorMessage("rad(er) har ogiltigt ROAS-värde", <<Cardinality(invalidRoas)>>)>>
              ELSE <<>>)
        \o (IF Cardinality(uniqueSpends) < 2
              THEN <<ErrorMessage("Alla datapunkter har samma spendvärde. Variation krävs för regression.", <<>>)>>
              ELSE <<>>)
  IN [valid |-> Len(errors) = 0, errors |-> errors]

validateData(data) ==
  LET invalidSpend == { i \in 1..Len(data) : IsLe0(data[i].spend) }
      invalidRoas == { i \in 1..Len(data) : IsLe0(data[i].roas) }
      uniqueSpends == { data[i].spend : i \in 1..Len(data) }
      errors ==
        (IF Len(data) < 5
           THEN <<ErrorMessage("Minst 5 datapunkter krävs", <<Len(data)>>)>> ELSE <<>>)
        \o (IF Cardinality(invalidSpend) > 0
              THEN <<ErrorMessage("rad(er) har ogiltigt spendvärde", <<Cardinality(invalidSpend)>>)>>
              ELSE <<>>)
        \o (IF Cardinality(invalidRoas) > 0
              THEN <<ErrorMessage("rad(er) har ogiltigt ROAS-värde", <<Cardinality(invalidRoas)>>)>>
              ELSE <<>>)
        \o (IF Cardinality(uniqueSpends) < 2 /\ Len(data) >= 2
              THEN <<ErrorMessage("Alla datapunkter har samma spendvärde. Variation krävs för regression.", <<>>)>>
              ELSE <<>>)
  IN [valid |-> Len(errors) = 0, errors |-> errors]

interpretSlope(b) ==
  IF Gt(b, R(-5, 100)) /\ Lt(b, R(5, 100))
    THEN "ROAS är stabil oavsett budget. Inga tydliga avtagande effekter."
  ELSE IF Ge(b, R(-3, 10))
    THEN "Lätt avtagande avkastning. Normal för de flesta annonskanaler."
  ELSE IF Ge(b, R(-6, 10))
    THEN "Normal avtagande avkastning. Budget bör optimeras noggrant."
  ELSE "Stark avtagande effekt. Ökning av budget ger snabbt minskad ROAS."

rSquaredOfRatio(ssRes, ssTot) == IF Gt(ssTot, N(0)) THEN Div(ssRes, ssTot) ELSE N(0)

rSquaredOf(ssRes, ssTot) == IF Gt(ssTot, N(0)) THEN Sub(N(1), Div(ssRes, ssTot)) ELSE N(0)

fitQualityOf(rSquared) ==
  IF Gt(rSquared, R(7, 10)) THEN "high"
  ELSE IF Gt(rSquared, R(3, 10)) THEN "medium"
  ELSE "low"

\* runOLS after the validation: the sums, the singularity guard, the
\* coefficients and the returned object.
olsFit(data) ==
  LET n == Len(data)
      X == [i \in 1..n |-> log(data[i].spend)]
      Y == [i \in 1..n |-> log(data[i].roas)]
      sumX == SumOf(X)
      sumY == SumOf(Y)
      sumXY == SumOf([i \in 1..n |-> Mul(X[i], Y[i])])
      sumX2 == SumOf([i \in 1..n |-> Mul(X[i], X[i])])
      meanX == Div(sumX, N(n))
      meanY == Div(sumY, N(n))
      denom == Sub(Mul(N(n), sumX2), Mul(sumX, sumX))
      b == Div(Sub(Mul(N(n), sumXY), Mul(sumX, sumY)), denom)
      a == Sub(meanY, Mul(b, meanX))
      ssTot == SumOf([i \in 1..n |-> Square(Sub(Y[i], meanY))])
      ssRes == SumOf([i \in 1..n |-> Square(Sub(Y[i], Add(a, Mul(b, X[i]))))])
      rSquared == rSquaredOf(ssRes, ssTot)
  IN IF Eq(denom, N(0)) THEN null
     ELSE [a |-> a, b |-> b, rSquared |-> rSquared, n |-> n,
           fitQuality |-> fitQualityOf(rSquared),
           interpretation |-> interpretSlope(b),
           config |-> [a |-> a, b |-> b],
           predictedRoas |-> [a |-> a, b |-> b]]

runOLSUnvalidated(data) == olsFit(data)

runOLS(data) ==
  LET validation == validateData(data)
  IN IF ~validation.valid THEN null ELSE olsFit(data)

-----------------------------------------------------------------------------
(* CSV parsing (parseCSV).  A line of text is a sequence of tokens: the    *)
(* separator characters, white space, and the words and digit strings      *)
(* between them.                                                           *)

Whitespace == {" ", "\t"}

RECURSIVE trimStart(_)
trimStart(s) == IF s # <<>> /\ s[1] \in Whitespace THEN trimStart(Tail(s)) ELSE s

RECURSIVE trimEnd(_)
trimEnd(s) ==
  IF s # <<>> /\ s[Len(s)] \in Whitespace THEN trimEnd(SubSeq(s, 1, Len(s) - 1)) ELSE s

\* String.prototype.trim on one line or cell
trim(s) == trimEnd(trimStart(s))

\* csv.trim().split(/\r?\n/): white space and line ends go from both ends
\* of the text, and an empty text is one empty line.
RECURSIVE trimLines(_)
trimLines(text) ==
  IF text = <<>> THEN <<<<>>>>
  ELSE IF trim(text[1]) = <<>> THEN trimLines(Tail(text))
  ELSE IF trim(text[Len(text)]) = <<>> THEN trimLines(SubSeq(text, 1, Len(text) - 1))
  ELSE IF Len(text) = 1 THEN <<trim(text[1])>>
  ELSE <<trimStart(text[1])>> \o SubSeq(text, 2, Len(text) - 1) \o <<trimEnd(text[Len(text)])>>

includes(line, ch) == \E k \in 1..Len(line) : line[k] = ch

\* String.prototype.split(separator)
RECURSIVE split(_, _)
split(line, separator) ==
  IF ~includes(line, separator) THEN <<line>>
  ELSE LET k == CHOOSE k \in 1..Len(line) :
                  line[k] = separator /\ \A j \in 1..(k - 1) : line[j] # separator
       IN <<SubSeq(line, 1, k - 1)>> \o split(SubSeq(line, k + 1, Len(line)), separator)

detectSeparator(lines) ==
  LET firstDataLine == IF Len(lines) > 1 THEN lines[2] ELSE lines[1]
  IN IF includes(firstDataLine, "\t") THEN "\t"
     ELSE IF includes(firstDataLine, ";") THEN ";"
     ELSE ","

HeaderWords == {"date", "datum", "spend", "budget", "revenue", "omsättning", "roas", "intäkt"}

RevenueWords == {"revenue", "omsättning", "intäkt"}

\* /^(date|datum|spend|budget|revenue|omsättning|roas|intäkt)/i.test(c)
startsWithHeaderWord(c) == c # <<>> /\ c[1] \in HeaderWords

\* /revenue|omsättning|intäkt/.test(h)
hasRevenueWord(h) == \E k \in 1..Len(h) : h[k] \in RevenueWords

firstCellsOf(lines, separator) ==
  LET raw == split(lines[1], separator)
  IN [k \in 1..Len(raw) |-> trim(raw[k])]

isHeaderOf(lines, separator) ==
  LET firstCells == firstCellsOf(lines, separator)
  IN \E k \in 1..Len(firstCells) : startsWithHeaderWord(firstCells[k])

hasRevenueOf(lines, separator) ==
  LET firstCells == firstCellsOf(lines, separator)
  IN IF isHeaderOf(lines, separator)
       THEN \E k \in 1..Len(firstCells) : hasRevenueWord(firstCells[k])
       ELSE TRUE

IsNotWhitespace(t) == t \notin Whitespace

\* line.split(separator).map(c => c.trim().replace(/\s/g, ''))
cellsOf(line, separator) ==
  LET raw == split(line, separator)
  IN [k \in 1..Len(raw) |-> SelectSeq(raw[k], IsNotWhitespace)]

\* The digit strings of the texts drawn: value and number of digits.
Numerals ==
  ("0" :> [int |-> 0, digits |-> 1]) @@ ("2" :> [int |-> 2, digits |-> 1]) @@
  ("4" :> [int |-> 4, digits |-> 1]) @@ ("50" :> [int |-> 50, digits |-> 2]) @@
  ("100" :> [int |-> 100, digits |-> 3]) @@ ("200" :> [int |-> 200, digits |-> 3]) @@
  ("-4" :> [int |-> -4, digits |-> 1])

IsNumeral(t) == t \in DOMAIN Numerals

IsUnsigned(t) == IsNumeral(t) /\ Numerals[t].int >= 0

RECURSIVE PowerOfTen(_)
PowerOfTen(k) == IF k = 0 THEN 1 ELSE 10 * PowerOfTen(k - 1)

\* Number(s.replace(',', '.')): the first comma is a decimal point.
parseNum(s) ==
  IF s = <<>> THEN N(0)
  ELSE IF Len(s) = 1 /\ IsNumeral(s[1]) THEN N(Numerals[s[1]].int)
  ELSE IF Len(s) = 2 /\ IsNumeral(s[1]) /\ s[2] = "," THEN N(Numerals[s[1]].int)
  ELSE IF Len(s) = 2 /\ s[1] = "," /\ IsUnsigned(s[2])
    THEN R(Numerals[s[2]].int, PowerOfTen(Numerals[s[2]].digits))
  ELSE IF Len(s) = 3 /\ IsNumeral(s[1]) /\ s[2] = "," /\ IsUnsigned(s[3])
    THEN LET whole == Numerals[s[1]].int
             scale == PowerOfTen(Numerals[s[3]].digits)
             frac == Numerals[s[3]].int
         IN IF whole < 0 THEN R(whole * scale - frac, scale)
            ELSE R(whole * scale + frac, scale)
  ELSE NaN

\* x || y on numbers: 0 and NaN are falsy.
OrElse(x, y) == IF IsNaN(x) \/ x = N(0) THEN y ELSE x

\* The loop body up to the push: the values read from one row.
readRow(cells, hasRevenue) ==
  IF Len(cells) >= 4
    THEN [date |-> cells[1], spend |-> parseNum(cells[2]),
          revenue |-> parseNum(cells[3]), roas |-> parseNum(cells[4])]
  ELSE IF Len(cells) = 3
    THEN LET spend == parseNum(cells[2])
             thirdVal == parseNum(cells[3])
         IN IF hasRevenue \/ Gt(thirdVal, N(100))
              THEN [date |-> cells[1], spend |-> spend, revenue |-> thirdVal,
                    roas |-> IF Gt(spend, N(0)) THEN Div(thirdVal, spend) ELSE N(0)]
              ELSE [date |-> cells[1], spend |-> spend, revenue |-> Mul(spend, thirdVal),
                    roas |-> thirdVal]
  ELSE LET spend == parseNum(cells[1])
           revenue == parseNum(cells[2])
       IN [date |-> <<>>, spend |-> spend, revenue |-> revenue,
           roas |-> IF Gt(spend, N(0)) THEN Div(revenue, spend) ELSE N(0)]

pushedPoint(row, results) ==
  [date |-> IF row.date # <<>> THEN row.date ELSE <<"Row", Len(results) + 1>>,
   spend |-> row.spend,
   revenue |-> OrElse(row.revenue, Mul(row.spend, row.roas)),
   roas |-> OrElse(row.roas,
                   IF Gt(row.spend, N(0)) THEN Div(row.revenue, row.spend) ELSE N(0))]

parseLineAnySpend(results, line, separator, hasRevenue) ==
  IF trim(line) = <<>> THEN results
  ELSE IF Len(cellsOf(line, separator)) < 2 THEN results
  ELSE LET row == readRow(cellsOf(line, separator), hasRevenue)
       IN IF Gt(row.revenue, N(0)) \/ Gt(row.roas, N(0))
            THEN Append(results, pushedPoint(row, results))
            ELSE results

\* One pass of the for loop over a data line.
parseLine(results, line, separator, hasRevenue) ==
  IF trim(line) = <<>> THEN results
  ELSE IF Len(cellsOf(line, separator)) < 2 THEN results
  ELSE LET row == readRow(cellsOf(line, separator), hasRevenue)
       IN IF Gt(row.spend, N(0)) /\ (Gt(row.revenue, N(0)) \/ Gt(row.roas, N(0)))
            THEN Append(results, pushedPoint(row, results))
            ELSE results

RECURSIVE parseLines(_, _, _, _)
parseLines(results, dataLines, separator, hasRevenue) ==
  IF dataLines = <<>> THEN results
  ELSE parseLines(parseLine(results, dataLines[1], separator, hasRevenue),
                  Tail(dataLines), separator, hasRevenue)

parseCSV(text) ==
  LET lines == trimLines(text)
      separator == detectSeparator(lines)
      isHeader == isHeaderOf(lines, separator)
      dataLines == IF isHeader THEN Tail(lines) ELSE lines
      hasRevenue == hasRevenueOf(lines, separator)
  IN parseLines(<<>>, dataLines, separator, hasRevenue)

-----------------------------------------------------------------------------
(* Volume model, manual mode (calculateManualRevenue,                      *)
(* calculateManualEffectiveRoas).  Math.pow is computed exactly, on bases  *)
(* whose roots are rational.                                               *)

RECURSIVE IntPow(_, _)
IntPow(k, p) == IF p = 0 THEN 1 ELSE k * IntPow(k, p - 1)

\* The q-th root of a natural number that has a natural q-th root.
ExactRoot(k, q) == CHOOSE r \in 0..k : IntPow(r, q) = k

\* Math.pow(x, y) for finite x >= 0 and finite y, and for x = Infinity.
MathPow(x, y) ==
  IF IsNaN(x) \/ IsNaN(y) THEN NaN
  ELSE IF y = N(0) THEN N(1)
  ELSE IF x = Infinity THEN (IF Gt(y, N(0)) THEN Infinity ELSE N(0))
  ELSE IF x = N(0) THEN (IF Gt(y, N(0)) THEN N(0) ELSE Infinity)
  ELSE IF Lt(x, N(0)) THEN NaN
  ELSE LET p == Abs(y.n)
           rootN == ExactRoot(x.n, y.d)
           rootD == ExactRoot(x.d, y.d)
       IN IF y.n > 0 THEN R(IntPow(rootN, p), IntPow(rootD, p))
          ELSE R(IntPow(rootD, p), IntPow(rootN, p))

calculateManualRevenueZeroRoas(budget, roas, config) ==
  IF Le(budget, N(0)) \/ Lt(roas, N(0)) \/ Le(config.roasRef, N(0)) THEN N(0)
  ELSE LET elasticityFactor == MathPow(Div(roas, config.roasRef), Neg(config.elasticity))
       IN Mul(Mul(budget, roas), elasticityFactor)

calculateManualRevenue(budget, roas, config) ==
  IF Le(budget, N(0)) \/ Le(roas, N(0)) \/ Le(config.roasRef, N(0)) THEN N(0)
  ELSE LET elasticityFactor == MathPow(Div(roas, config.roasRef), Neg(config.elasticity))
       IN Mul(Mul(budget, roas), elasticityFactor)

calculateManualEffectiveRoas(budget, budgetRef, config) ==
  IF Le(budget, N(0)) \/ Le(budgetRef, N(0)) \/ Le(config.roasRef, N(0)) THEN N(0)
  ELSE IF config.elasticity = N(0) THEN config.roasRef
  ELSE LET exponent == Div(Neg(config.elasticity), Add(N(1), config.elasticity))
       IN Mul(config.roasRef, MathPow(Div(budget, budgetRef), exponent))

-----------------------------------------------------------------------------
(* The calculator hook (useCalculator): inputs, derived outputs and the    *)
(* saved scenarios.                                                        *)

defaultInputs ==
  [aov |-> N(0), industry |-> "ecommerce", productCost |-> None, grossMargin |-> None,
   returnRate |-> None, shippingCost |-> None, shippingCostType |-> None,
   shippingCostPercent |-> None, paymentFee |-> None, ltvMultiplier |-> None,
   desiredProfitMargin |-> None, ltvMode |-> None]

isValidOf(in) == Gt(in.aov, N(0))

\* useMemo: null without a valid AOV
outputsOf(in) == IF ~isValidOf(in) THEN null ELSE calculateBreakEven(in)

\* Array.prototype.slice(-k)
sliceLast(s, k) == IF Len(s) <= k THEN s ELSE SubSeq(s, Len(s) - k + 1, Len(s))

saveScenarioKeepingThree(scenarios, in, name, now) ==
  IF outputsOf(in) = null THEN scenarios
  ELSE sliceLast(scenarios, 3) \o
       <<[id |-> now, name |-> name, inputs |-> in, outputs |-> outputsOf(in)]>>

saveScenario(scenarios, in, name, now) ==
  IF outputsOf(in) = null THEN scenarios
  ELSE sliceLast(scenarios, 2) \o
       <<[id |-> now, name |-> name, inputs |-> in, outputs |-> outputsOf(in)]>>

HasOtherId(s, id) == s.id # id

removeScenario(scenarios, id) ==
  SelectSeq(scenarios, LAMBDA s : HasOtherId(s, id))

-----------------------------------------------------------------------------
(* Inputs                                                                  *)

MaxRevenueUnits == 5
MaxBudgetUnits == 2
MaxAovUnits == 2
MaxRoasHalves == 12

\* Revenue targets and media budgets in steps of 250 SEK; the lowest value
\* of each is one the validation rejects.
RevenueTargets == {N(250 * k) : k \in -1..MaxRevenueUnits}
MediaBudgets == {N(250 * k) : k \in 0..MaxBudgetUnits}
ProfitMarginGoals == {R(-1, 10), N(0), R(1, 5), R(1, 2), N(1), R(3, 2)}
MinRevenuePercents == {None, Some(N(70)), Some(N(100)), Some(N(120))}

\* AOV 100, 50 % gross margin, no other costs: 50 SEK left per order.
baseEconomics ==
  [CalculatorInput(N(100), "other") EXCEPT
     !.grossMargin = Some(N(50)), !.returnRate = Some(N(0)),
     !.shippingCost = Some(N(0)), !.paymentFee = Some(N(0))]

ReverseEconomics ==
  { baseEconomics,
    [baseEconomics EXCEPT !.ltvMultiplier = Some(R(3, 2)), !.ltvMode = Some(TRUE)],
    [baseEconomics EXCEPT !.aov = N(0)],
    CalculatorInput(N(100), "ecommerce"),   \* defaults only: loses money per order
    CalculatorInput(N(100), "fashion") }    \* defaults only: profitable

ReverseGoals ==
  { [revenueTarget |-> r, mediaBudget |-> b, profitMarginGoal |-> g,
     economics |-> e, minRevenuePercent |-> m] :
      r \in RevenueTargets, b \in MediaBudgets, g \in ProfitMarginGoals,
      e \in ReverseEconomics, m \in MinRevenuePercents }

ShippingChoices ==
  { <<None, None, None>>,
    <<Some("percent"), None, Some(N(10))>>,
    <<Some("percent"), Some(N(20)), None>>,
    <<Some("fixed"), Some(N(20)), Some(N(10))>> }

\* desiredProfitMargin (percent, forward calculator) with the matching
\* profitMarginGoal (fraction of AOV).
MarginChoices ==
  { <<None, R(1, 5)>>, <<Some(N(0)), N(0)>>, <<Some(N(50)), R(1, 2)>>, <<Some(N(100)), N(1)>> }

UnitEconomicsInputs ==
  { [aov |-> N(100 * a), industry |-> i, productCost |-> pcost, grossMargin |-> gm,
     returnRate |-> rr, shippingCostType |-> sh[1], shippingCost |-> sh[2],
     shippingCostPercent |-> sh[3], paymentFee |-> pf, ltvMultiplier |-> ltv,
     desiredProfitMargin |-> None, ltvMode |-> mode] :
      a \in 0..MaxAovUnits, i \in {"ecommerce", "fashion"},
      pcost \in {None, Some(N(60))}, gm \in {None, Some(N(50))},
      rr \in {None, Some(N(0))}, sh \in ShippingChoices,
      pf \in {None, Some(N(0))}, ltv \in {None, Some(N(0)), Some(R(3, 2))},
      mode \in {None, Some(TRUE)} }

UnitGoals ==
  { [revenueTarget |-> N(1000), mediaBudget |-> N(250), profitMarginGoal |-> mc[2],
     economics |-> [e EXCEPT !.desiredProfitMargin = mc[1]],
     minRevenuePercent |-> None] :
      e \in UnitEconomicsInputs, mc \in MarginChoices }

RoasValues == {R(k, 2) : k \in 1..MaxRoasHalves} \cup {Infinity}

Statuses == {"achievable", "tight", "impossible"}

NoResult == [none |-> TRUE]

\* Simulations: a validated goal, a scenario as the generators return them
\* and one of the two revisions of the simulator.
MaxRampUpMonths == 6

RoiCases == {"worst", "expected", "best"}

RoiSlots == RoiCases \cup {"custom"}

RoiScenarios ==
  { [recommendedBudget |-> budget, requiredROAS |-> roas,
     achievedProfitMargin |-> margin] :
      budget \in {N(0), N(1200), N(3600)},
      roas \in {R(1, 2), N(1), N(4), N(12), Infinity},
      margin \in {N(0), R(1, 10), R(1, 5), R(1, 2), R(9, 10)} }

RoiRuns ==
  { [revision |-> revision,
     in |-> [revenueTarget |-> N(12000), mediaBudget |-> mediaBudget],
     scenario |-> scenario,
     results |-> [slot \in RoiSlots |-> NoResult]] :
      revision \in {"current", "organicBaseline"},
      mediaBudget \in {N(1200), N(2400)},
      scenario \in RoiScenarios }

\* The presets, and in the custom slot any ramp-up at no variance.
RoiConfigs(slot) ==
  IF slot \in RoiCases THEN {getDefaultConfig(slot)}
  ELSE { [case |-> "expected", rampUpMonths |-> r, variancePercent |-> N(0)] :
           r \in 0..MaxRampUpMonths }

\* Searches: a calibrated config (a held as the logarithm of exp(a)), a
\* profit margin and a search interval in hundreds.
MaxBudgetHundreds == 5

CalibratedConfigs ==
  { [a |-> [ln |-> expA], b |-> b] : expA \in {N(1), N(2), N(10)}, b \in {0, -1} }

Searches ==
  { [config |-> config, profitMargin |-> profitMargin,
     minBudget |-> Q5OfInt(100 * lo), maxBudget |-> Q5OfInt(100 * hi),
     pc |-> "called", st |-> NoResult, result |-> NoResult] :
      config \in CalibratedConfigs,
      profitMargin \in {R(1, 5), R(1, 2)},
      lo \in 0..MaxBudgetHundreds, hi \in 0..MaxBudgetHundreds }

\* Calibration data: rows whose spend and roas have the logarithms shown,
\* a row with spend 0, a row with a negative roas, and a row whose spend is
\* the floating-point neighbour of another row's spend.
MaxPoints == 5

Rows ==
  { HistoricalDataPoint(Positive(N(0)), Positive(N(0))),
    HistoricalDataPoint(Positive(N(2)), Positive(N(0))),
    HistoricalDataPoint(Positive(N(1)), Positive(N(1))),
    HistoricalDataPoint(NextAfter(Positive(N(2))), Positive(N(0))),
    HistoricalDataPoint(Zero, Positive(N(0))),
    HistoricalDataPoint(Positive(N(0)), Negative(N(0))) }

Calibrations ==
  { [data |-> data, validation |-> NoResult, result |-> NoResult] :
      data \in UNION { [1..len -> Rows] : len \in 0..MaxPoints } }

\* Pasted texts: up to MaxLines lines out of header rows, rows of two,
\* three and four columns, rows with a decimal comma, with a bad or missing
\* spend, with no revenue, a blank line, and a comma-separated row.
MaxLines == 3

CsvLines ==
  { <<"date", ";", "spend", ";", "revenue">>,
    <<"date", ";", "spend", ";", "roas">>,
    <<"2024-01", ";", "50", ";", "200">>,
    <<"2024-02", ";", "50", ";", "4">>,
    <<"2024-03", ";", "100", ";", "4", ",", "2">>,
    <<" ">>,
    <<"2024-04", ";", "0", ";", "200">>,
    <<"2024-05", ";", "n/a", ";", "200">>,
    <<"2024-06">>,
    <<"50", ";", "200">>,
    <<"2024-07", ";", "50", ";", "200", ";", "-4">>,
    <<"2024-08", ";", "50", ";", "0">>,
    <<"2024-09", ",", "50", ",", "200">> }

CsvTexts ==
  { [csvText |-> text, pc |-> "pasted", parsed |-> <<>>] :
      text \in UNION { [1..len -> CsvLines] : len \in 0..MaxLines } }

\* Volume-model calls: budgets and reference budgets of k^6 for k up
\* to MaxSpendRoot (so that their ratios have rational square and cube
\* roots), with zero and a negative value among them.
MaxSpendRoot == 2

SpendValues == {N(-1), N(0)} \cup { N(IntPow(k, 6)) : k \in 1..MaxSpendRoot }

ManualRoasValues == {N(-1), N(0), N(1), N(4)}

ManualVolumeConfigs ==
  { [elasticity |-> e, roasRef |-> r] :
      e \in {N(0), R(1, 2), N(1), N(2)}, r \in ManualRoasValues }

VolumeCalls ==
  { [fn |-> "calculateManualRevenue", pc |-> "called", budget |-> b, other |-> q,
     config |-> c, result |-> NoResult] :
      b \in SpendValues, q \in ManualRoasValues, c \in ManualVolumeConfigs }
  \cup
  { [fn |-> "calculateManualEffectiveRoas", pc |-> "called", budget |-> b, other |-> q,
     config |-> c, result |-> NoResult] :
      b \in SpendValues, q \in SpendValues, c \in ManualVolumeConfigs }
  \cup
  { [fn |-> fn, pc |-> "called", budget |-> b, other |-> N(0),
     config |-> c, result |-> NoResult] :
      fn \in {"predictRoas", "predictRevenue"}, b \in SpendValues, c \in CalibratedConfigs }

\* The hook: AOV values typed in, scenario names, and the clock values
\* Date.now() can return, which only grow.
MaxClock == 2

AovValues == {N(0), N(100), N(200)}

ScenarioNames == {"A", "B"}


-----------------------------------------------------------------------------
(* State machine: one library call per step.                               *)

InitResults ==
  /\ csv = NoResult /\ vol = NoResult /\ hook = NoResult
  /\ pc = "input"
  /\ reverse = NoResult
  /\ forward = NoResult
  /\ ue = NoResult
  /\ th = NoResult
  /\ scen = NoResult
  /\ rec = NoResult
  /\ statusCall = NoResult
  /\ roi = NoResult
  /\ opt = NoResult
  /\ calib = NoResult

Init == inputs \in ReverseGoals /\ InitResults

InitUnit == inputs \in UnitGoals /\ InitResults

InitStatus ==
  /\ csv = NoResult /\ vol = NoResult /\ hook = NoResult
  /\ inputs = CHOOSE g \in ReverseGoals : validationError(g) = ""
  /\ pc = "input"
  /\ reverse = NoResult /\ forward = NoResult /\ ue = NoResult /\ th = NoResult
  /\ scen = NoResult /\ rec = NoResult
  /\ roi = NoResult /\ opt = NoResult /\ calib = NoResult
  /\ statusCall \in { [req |-> q, be |-> b, tg |-> t, status |-> ""] :
                        q \in RoasValues, b \in RoasValues, t \in RoasValues }

InitRoi ==
  /\ csv = NoResult /\ vol = NoResult /\ hook = NoResult
  /\ inputs = CHOOSE g \in ReverseGoals : validationError(g) = ""
  /\ pc = "input"
  /\ reverse = NoResult /\ forward = NoResult /\ ue = NoResult /\ th = NoResult
  /\ scen = NoResult /\ rec = NoResult /\ statusCall = NoResult
  /\ opt = NoResult /\ calib = NoResult
  /\ roi \in RoiRuns

InitSearch ==
  /\ csv = NoResult /\ vol = NoResult /\ hook = NoResult
  /\ inputs = CHOOSE g \in ReverseGoals : validationError(g) = ""
  /\ pc = "input"
  /\ reverse = NoResult /\ forward = NoResult /\ ue = NoResult /\ th = NoResult
  /\ scen = NoResult /\ rec = NoResult /\ statusCall = NoResult
  /\ roi = NoResult /\ calib = NoResult
  /\ opt \in Searches

InitCalib ==
  /\ csv = NoResult /\ vol = NoResult /\ hook = NoResult
  /\ inputs = CHOOSE g \in ReverseGoals : validationError(g) = ""
  /\ pc = "input"
  /\ reverse = NoResult /\ forward = NoResult /\ ue = NoResult /\ th = NoResult
  /\ scen = NoResult /\ rec = NoResult /\ statusCall = NoResult
  /\ roi = NoResult /\ opt = NoResult
  /\ calib \in Calibrations

InitParse ==
  /\ inputs = CHOOSE g \in ReverseGoals : validationError(g) = ""
  /\ pc = "input"
  /\ reverse = NoResult /\ forward = NoResult /\ ue = NoResult /\ th = NoResult
  /\ scen = NoResult /\ rec = NoResult /\ statusCall = NoResult
  /\ roi = NoResult /\ opt = NoResult /\ calib = NoResult
  /\ vol = NoResult /\ hook = NoResult
  /\ csv \in CsvTexts

InitVolume ==
  /\ inputs = CHOOSE g \in ReverseGoals : validationError(g) = ""
  /\ pc = "input"
  /\ reverse = NoResult /\ forward = NoResult /\ ue = NoResult /\ th = NoResult
  /\ scen = NoResult /\ rec = NoResult /\ statusCall = NoResult
  /\ roi = NoResult /\ opt = NoResult /\ calib = NoResult
  /\ csv = NoResult /\ hook = NoResult
  /\ vol \in VolumeCalls

InitHook ==
  /\ inputs = CHOOSE g \in ReverseGoals : validationError(g) = ""
  /\ pc = "input"
  /\ reverse = NoResult /\ forward = NoResult /\ ue = NoResult /\ th = NoResult
  /\ scen = NoResult /\ rec = NoResult /\ statusCall = NoResult
  /\ roi = NoResult /\ opt = NoResult /\ calib = NoResult
  /\ csv = NoResult /\ vol = NoResult
  /\ hook = [inputs |-> defaultInputs, scenarios |-> <<>>, now |-> 0,
             call |-> [op |-> "useCalculator", held |-> 0]]

CalculateReverse ==
  /\ pc = "input"
  /\ reverse' = calculateReverse(inputs)
  /\ pc' = "reversed"
  /\ UNCHANGED <<inputs, forward, ue, th, scen, rec, statusCall, roi, opt, calib, csv, vol, hook>>

CalculateBreakEven ==
  /\ pc = "input"
  /\ forward' = calculateBreakEven(inputs.economics)
  /\ pc' = "forward"
  /\ UNCHANGED <<inputs, reverse, ue, th, scen, rec, statusCall, roi, opt, calib, csv, vol, hook>>

ComputeUnitEconomics ==
  /\ pc = "input"
  /\ ue' = computeUnitEconomics(inputs.economics)
  /\ pc' = "economics"
  /\ UNCHANGED <<inputs, reverse, forward, th, scen, rec, statusCall, roi, opt, calib, csv, vol, hook>>

ComputeRoasThresholds ==
  /\ pc = "economics"
  /\ th' = computeRoasThresholds(ue, inputs.economics.aov, inputs.profitMarginGoal,
                                 inputs.economics.ltvMultiplier,
                                 inputs.economics.ltvMode)
  /\ pc' = "thresholds"
  /\ UNCHANGED <<inputs, reverse, forward, ue, scen, rec, statusCall, roi, opt, calib, csv, vol, hook>>

GenerateScenarios ==
  /\ pc = "thresholds"
  /\ scen' = generateScenarios(inputs, th.targetRoas, ue.contributionBeforeAds,
                               ue.contributionBeforeAds, th.targetImpossible)
  /\ pc' = "scenarios"
  /\ UNCHANGED <<inputs, reverse, forward, ue, th, rec, statusCall, roi, opt, calib, csv, vol, hook>>

\* The caller may hand in a ScenarioSet carrying any isRecommended flags; its
\* three scenario objects are the heap before the call.
UpdateScenarioRecommendations ==
  /\ pc = "scenarios"
  /\ \E f1 \in BOOLEAN, f2 \in BOOLEAN, f3 \in BOOLEAN, status \in Statuses :
       LET given ==
             [budgetForTarget |->
                [scen.budgetForTarget EXCEPT !.isRecommended = f1],
              maxRevenueGivenBudget |->
                [scen.maxRevenueGivenBudget EXCEPT !.isRecommended = f2],
              maxProfitGivenMinRevenue |->
                [scen.maxProfitGivenMinRevenue EXCEPT !.isRecommended = f3]]
           heap == <<given.budgetForTarget, given.maxRevenueGivenBudget,
                     given.maxProfitGivenMinRevenue>>
           scenarios == [budgetForTarget |-> 1, maxRevenueGivenBudget |-> 2,
                         maxProfitGivenMinRevenue |-> 3]
       IN rec' \in { [given |-> given, status |-> status,
                      after |-> deref(call.heap, scenarios),
                      out |-> deref(call.heap, call.returned)] :
                       call \in {updateScenarioRecommendationsOnHeap(heap, scenarios, status)} }
  /\ pc' = "recommended"
  /\ UNCHANGED <<inputs, reverse, forward, ue, th, scen, statusCall, roi, opt, calib, csv, vol, hook>>

DetermineStatus ==
  /\ pc = "input"
  /\ statusCall' =
       [statusCall EXCEPT
          !.status = determineStatus(statusCall.req, statusCall.be, statusCall.tg)]
  /\ pc' = "classified"
  /\ UNCHANGED <<inputs, reverse, forward, ue, th, scen, rec, roi, opt, calib, csv, vol, hook>>

SimulateROI ==
  /\ roi # NoResult
  /\ roi.revision = "current"
  /\ \E slot \in RoiSlots : \E config \in RoiConfigs(slot) :
       /\ roi.results[slot] = NoResult
       /\ roi' \in { [roi EXCEPT !.results[slot] = [config |-> config, result |-> result]] :
                       result \in {simulateROI(roi.in, roi.scenario, config)} }
  /\ UNCHANGED <<inputs, pc, reverse, forward, ue, th, scen, rec, statusCall, opt, calib, csv, vol, hook>>

SimulateROIOrganicBaseline ==
  /\ roi # NoResult
  /\ roi.revision = "organicBaseline"
  /\ \E slot \in RoiSlots : \E config \in RoiConfigs(slot) :
       /\ roi.results[slot] = NoResult
       /\ roi' \in { [roi EXCEPT !.results[slot] = [config |-> config, result |-> result]] :
                       result \in {simulateROIOrganicBaseline(roi.in, roi.scenario, config)} }
  /\ UNCHANGED <<inputs, pc, reverse, forward, ue, th, scen, rec, statusCall, opt, calib, csv, vol, hook>>

\* findOptimalBudget, one step per statement group: the initialisation, each
\* loop iteration, and the return.
FindOptimalBudgetEnter ==
  /\ opt # NoResult
  /\ opt.pc = "called"
  /\ opt' \in { [opt EXCEPT !.pc = "loop", !.st = st] :
                  st \in {searchStart(opt.config, opt.profitMargin,
                                      opt.minBudget, opt.maxBudget)} }
  /\ UNCHANGED <<inputs, pc, reverse, forward, ue, th, scen, rec, statusCall, roi, calib, csv, vol, hook>>

FindOptimalBudgetIterate ==
  /\ opt # NoResult
  /\ opt.pc = "loop"
  /\ loopContinues(opt.st.i, opt.st.a, opt.st.b)
  /\ opt' \in { [opt EXCEPT !.st = st] :
                  st \in {searchStep(opt.st, opt.config, opt.profitMargin)} }
  /\ UNCHANGED <<inputs, pc, reverse, forward, ue, th, scen, rec, statusCall, roi, calib, csv, vol, hook>>

FindOptimalBudgetReturn ==
  /\ opt # NoResult
  /\ opt.pc = "loop"
  /\ ~loopContinues(opt.st.i, opt.st.a, opt.st.b)
  /\ opt' \in { [opt EXCEPT !.pc = "returned", !.result = result] :
                  result \in {searchResult(opt.st, opt.config, opt.profitMargin)} }
  /\ UNCHANGED <<inputs, pc, reverse, forward, ue, th, scen, rec, statusCall, roi, calib, csv, vol, hook>>

\* validateData and runOLS, each called on the data as it stands.
ValidateData ==
  /\ calib # NoResult
  /\ calib.validation = NoResult
  /\ calib' \in { [calib EXCEPT !.validation = validation] :
                    validation \in {validateData(calib.data)} }
  /\ UNCHANGED <<inputs, pc, reverse, forward, ue, th, scen, rec, statusCall, roi, opt, csv, vol, hook>>

RunOLS ==
  /\ calib # NoResult
  /\ calib.result = NoResult
  /\ calib' \in { [calib EXCEPT !.result = result] :
                    result \in {runOLS(calib.data)} }
  /\ UNCHANGED <<inputs, pc, reverse, forward, ue, th, scen, rec, statusCall, roi, opt, csv, vol, hook>>

\* parseCSV on the pasted text.
ParseCSV ==
  /\ csv # NoResult
  /\ csv.pc = "pasted"
  /\ csv' \in { [csv EXCEPT !.pc = "parsed", !.parsed = parsed] :
                  parsed \in {parseCSV(csv.csvText)} }
  /\ UNCHANGED <<inputs, pc, reverse, forward, ue, th, scen, rec, statusCall, roi, opt, calib, vol, hook>>

\* One call of a volume-model function.
CalculateManualRevenue ==
  /\ vol # NoResult
  /\ vol.fn = "calculateManualRevenue" /\ vol.pc = "called"
  /\ vol' \in { [vol EXCEPT !.pc = "returned", !.result = result] :
                  result \in {calculateManualRevenue(vol.budget, vol.other, vol.config)} }
  /\ UNCHANGED <<inputs, pc, reverse, forward, ue, th, scen, rec, statusCall, roi, opt, calib, csv, hook>>

CalculateManualEffectiveRoas ==
  /\ vol # NoResult
  /\ vol.fn = "calculateManualEffectiveRoas" /\ vol.pc = "called"
  /\ vol' \in { [vol EXCEPT !.pc = "returned", !.result = result] :
                  result \in {calculateManualEffectiveRoas(vol.budget, vol.other, vol.config)} }
  /\ UNCHANGED <<inputs, pc, reverse, forward, ue, th, scen, rec, statusCall, roi, opt, calib, csv, hook>>

PredictRoas ==
  /\ vol # NoResult
  /\ vol.fn = "predictRoas" /\ vol.pc = "called"
  /\ vol' \in { [vol EXCEPT !.pc = "returned", !.result = result] :
                  result \in {predictRoas(Q5OfNumber(vol.budget), vol.config)} }
  /\ UNCHANGED <<inputs, pc, reverse, forward, ue, th, scen, rec, statusCall, roi, opt, calib, csv, hook>>

PredictRevenue ==
  /\ vol # NoResult
  /\ vol.fn = "predictRevenue" /\ vol.pc = "called"
  /\ vol' \in { [vol EXCEPT !.pc = "returned", !.result = result] :
                  result \in {predictRevenue(Q5OfNumber(vol.budget), vol.config)} }
  /\ UNCHANGED <<inputs, pc, reverse, forward, ue, th, scen, rec, statusCall, roi, opt, calib, csv, hook>>

\* The handlers of the hook; call holds the last handler run and how many
\* scenarios it found.  Time passes between calls.
UpdateInput ==
  /\ hook # NoResult
  /\ \E aov \in AovValues :
       hook' = [hook EXCEPT !.inputs = [@ EXCEPT !.aov = aov],
                            !.call = [op |-> "updateInput", held |-> Len(hook.scenarios)]]
  /\ UNCHANGED <<inputs, pc, reverse, forward, ue, th, scen, rec, statusCall, roi, opt, calib, csv, vol>>

SaveScenario ==
  /\ hook # NoResult
  /\ \E name \in ScenarioNames :
       hook' \in { [hook EXCEPT !.scenarios = scenarios,
                                !.call = [op |-> "saveScenario", held |-> Len(hook.scenarios)]] :
                     scenarios \in {saveScenario(hook.scenarios, hook.inputs, name, hook.now)} }
  /\ UNCHANGED <<inputs, pc, reverse, forward, ue, th, scen, rec, statusCall, roi, opt, calib, csv, vol>>

RemoveScenario ==
  /\ hook # NoResult
  /\ \E k \in 1..Len(hook.scenarios) :
       hook' = [hook EXCEPT !.scenarios = removeScenario(@, hook.scenarios[k].id),
                            !.call = [op |-> "removeScenario", held |-> Len(hook.scenarios)]]
  /\ UNCHANGED <<inputs, pc, reverse, forward, ue, th, scen, rec, statusCall, roi, opt, calib, csv, vol>>

LoadScenario ==
  /\ hook # NoResult
  /\ \E k \in 1..Len(hook.scenarios) :
       hook' = [hook EXCEPT !.inputs = hook.scenarios[k].inputs,
                            !.call = [op |-> "loadScenario", held |-> Len(hook.scenarios)]]
  /\ UNCHANGED <<inputs, pc, reverse, forward, ue, th, scen, rec, statusCall, roi, opt, calib, csv, vol>>

Tick ==
  /\ hook # NoResult
  /\ hook.now < MaxClock
  /\ hook' = [hook EXCEPT !.now = @ + 1]
  /\ UNCHANGED <<inputs, pc, reverse, forward, ue, th, scen, rec, statusCall, roi, opt, calib, csv, vol>>

Next ==
  \/ CalculateReverse
  \/ ComputeUnitEconomics
  \/ ComputeRoasThresholds
  \/ GenerateScenarios
  \/ UpdateScenarioRecommendations

NextUnit ==
  \/ CalculateBreakEven
  \/ ComputeUnitEconomics
  \/ ComputeRoasThresholds

NextStatus == DetermineStatus

NextRoi ==
  \/ SimulateROI
  \/ SimulateROIOrganicBaseline

NextSearch ==
  \/ FindOptimalBudgetEnter
  \/ FindOptimalBudgetIterate
  \/ FindOptimalBudgetReturn

NextCalib ==
  \/ ValidateData
  \/ RunOLS

NextParse == ParseCSV

NextVolume ==
  \/ CalculateManualRevenue
  \/ CalculateManualEffectiveRoas
  \/ PredictRoas
  \/ PredictRevenue

NextHook ==
  \/ UpdateInput
  \/ SaveScenario
  \/ RemoveScenario
  \/ LoadScenario
  \/ Tick

Spec == Init /\ [][Next]_vars

SpecUnit == InitUnit /\ [][NextUnit]_vars

SpecStatus == InitStatus /\ [][NextStatus]_vars

SpecRoi == InitRoi /\ [][NextRoi]_vars

SpecSearch == InitSearch /\ [][NextSearch]_vars

SpecCalib == InitCalib /\ [][NextCalib]_vars

SpecParse == InitParse /\ [][NextParse]_vars

SpecVolume == InitVolume /\ [][NextVolume]_vars

SpecHook == InitHook /\ [][NextHook]_vars

-----------------------------------------------------------------------------
(* Properties                                                              *)

GoalIsValid(in) ==
  /\ Gt(in.revenueTarget, N(0))
  /\ Gt(in.mediaBudget, N(0))
  /\ Ge(in.profitMarginGoal, N(0)) /\ Le(in.profitMarginGoal, N(1))
  /\ Gt(in.economics.aov, N(0))

\* The first invalid field in the order revenue target, media budget,
\* profit margin goal, AOV.
FirstViolatedField(in) ==
  IF Le(in.revenueTarget, N(0)) THEN "revenueTarget"
  ELSE IF Le(in.mediaBudget, N(0)) THEN "mediaBudget"
  ELSE IF Lt(in.profitMarginGoal, N(0)) \/ Gt(in.profitMarginGoal, N(1))
       THEN "profitMarginGoal"
  ELSE IF Le(in.economics.aov, N(0)) THEN "aov"
  ELSE "none"

\* The field an error message names.
FieldNamedBy(error) ==
  CASE error = "Intaktsmalet maste vara storre an 0" -> "revenueTarget"
    [] error = "Mediabudgeten maste vara storre an 0" -> "mediaBudget"
    [] error = "Vinstmarginalen maste vara mellan 0 och 1" -> "profitMarginGoal"
    [] error = "AOV maste vara storre an 0" -> "aov"
    [] OTHER -> "none"

\* C1: calculateReverse throws for an invalid goal, the error names the first
\* violated field in the order revenue target, media budget, profit margin
\* goal, AOV, and nothing is returned; a valid goal does not throw.
C1_ValidationFailsFast ==
  pc = "reversed" =>
    IF FirstViolatedField(inputs) # "none"
    THEN /\ reverse.threw
         /\ FieldNamedBy(reverse.error) = FirstViolatedField(inputs)
         /\ DOMAIN reverse = {"threw", "error"}
    ELSE ~reverse.threw

\* A goal with a valid revenue target and three invalid fields is rejected
\* for its media budget.
C1_Witness ==
  /\ pc = "reversed"
  /\ reverse.threw
  /\ Gt(inputs.revenueTarget, N(0))
  /\ Le(inputs.mediaBudget, N(0))
  /\ Gt(inputs.profitMarginGoal, N(1))
  /\ Le(inputs.economics.aov, N(0))
  /\ FieldNamedBy(reverse.error) = "mediaBudget"

TestedStatus(req, tg) ==
  IF Le(req, tg) THEN "achievable"
  ELSE IF Le(req, Mul(N(2), tg)) THEN "tight"
  ELSE "impossible"

\* C3: determineStatus returns 'achievable' for every required <= target
\* (also below break-even), 'tight' above target up to 2 x target and
\* 'impossible' above 2 x target; calculateReverse reports the same status.
C3_TestedStatusZones ==
  /\ pc = "classified" =>
       statusCall.status = TestedStatus(statusCall.req, statusCall.tg)
  /\ (pc = "reversed" /\ ~reverse.threw) =>
       reverse.status = TestedStatus(reverse.requiredROAS, reverse.targetROAS)

RecommendedIn(scenarios) == {k \in DOMAIN scenarios : scenarios[k].isRecommended}

\* C4: updateScenarioRecommendations leaves exactly one scenario recommended,
\* whatever flags it was given: budget-for-target (balance) when achievable,
\* max-profit when tight, max-revenue when impossible; so does the scenario
\* set calculateReverse returns, for the status of the same result.
C4_ExactlyOneRecommended ==
  /\ pc = "recommended" =>
       RecommendedIn(rec.out) =
         { CASE rec.status = "achievable" -> "budgetForTarget"
             [] rec.status = "tight" -> "maxProfitGivenMinRevenue"
             [] rec.status = "impossible" -> "maxRevenueGivenBudget" }
  /\ (pc = "reversed" /\ ~reverse.threw) =>
       RecommendedIn(reverse.scenarios) =
         { CASE reverse.status = "achievable" -> "balance"
             [] reverse.status = "tight" -> "maxProfit"
             [] reverse.status = "impossible" -> "maxRevenue" }

\* Three flags set on the way in, one on the way out.
C4_Witness ==
  /\ pc = "recommended"
  /\ RecommendedIn(rec.given) = DOMAIN rec.given
  /\ rec.status = "tight"
  /\ RecommendedIn(rec.out) = {"maxProfitGivenMinRevenue"}

EffectiveAovOfInputs ==
  effectiveAovOf(inputs.economics.aov, inputs.economics.ltvMultiplier,
                 inputs.economics.ltvMode)

\* C5: breakEvenRoas is Infinity exactly when contributionBeforeAds <= 0 and
\* effectiveAov / contributionBeforeAds otherwise; targetImpossible holds
\* exactly when maxAdCostTarget = contribution - effectiveAov x margin is <= 0,
\* which is exactly when targetRoas is Infinity; otherwise targetRoas is
\* effectiveAov / maxAdCostTarget.
C5_InfeasibilityAsValues ==
  pc = "thresholds" =>
    LET cba == ue.contributionBeforeAds
        maxAdCostTarget == Sub(cba, Mul(EffectiveAovOfInputs, inputs.profitMarginGoal))
    IN /\ th.breakEvenRoas = Infinity <=> Le(cba, N(0))
       /\ Gt(cba, N(0)) => th.breakEvenRoas = Div(EffectiveAovOfInputs, cba)
       /\ th.maxAdCostTarget = maxAdCostTarget
       /\ th.targetImpossible <=> Le(maxAdCostTarget, N(0))
       /\ th.targetImpossible <=> th.targetRoas = Infinity
       /\ ~th.targetImpossible =>
            th.targetRoas = Div(EffectiveAovOfInputs, maxAdCostTarget)

\* Break-even is finite while the desired margin eats the whole contribution.
C5_Witness ==
  /\ pc = "thresholds"
  /\ isFinite(th.breakEvenRoas)
  /\ th.maxAdCostTarget = N(0)
  /\ th.targetImpossible
  /\ th.targetRoas = Infinity

RefReturnRate(e) ==
  IF IsDefined(e.returnRate) THEN Div(Get(e.returnRate), N(100))
  ELSE industryDefaults[e.industry].returnRate

RefPaymentFeeRate(e) ==
  IF IsDefined(e.paymentFee) THEN Div(Get(e.paymentFee), N(100))
  ELSE industryDefaults[e.industry].paymentFee

RefProductCost(e) ==
  IF IsDefined(e.productCost) THEN Get(e.productCost)
  ELSE IF IsDefined(e.grossMargin)
       THEN Mul(e.aov, Sub(N(1), Div(Get(e.grossMargin), N(100))))
  ELSE Mul(e.aov, Sub(N(1), industryDefaults[e.industry].margin))

\* C6: the product cost is the explicit cost when given, else derived from
\* the gross margin, else from the industry default margin; the return rate
\* multiplies the cost; contributionBeforeAds = AOV - (effective cost +
\* shipping + AOV x payment fee rate).
C6_UnitEconomicsReference ==
  pc \in {"economics", "thresholds"} =>
    LET e == inputs.economics
    IN /\ ue.productCost = RefProductCost(e)
       /\ ue.productCostEffective = Mul(ue.productCost, Add(N(1), RefReturnRate(e)))
       /\ ue.paymentFee = Mul(e.aov, RefPaymentFeeRate(e))
       /\ ue.contributionBeforeAds =
            Sub(e.aov, Add(Add(ue.productCostEffective, ue.shippingCost),
                           Mul(e.aov, RefPaymentFeeRate(e))))

\* Product cost and gross margin both given, and a negative contribution.
C6_Witness ==
  /\ pc = "economics"
  /\ IsDefined(inputs.economics.productCost)
  /\ IsDefined(inputs.economics.grossMargin)
  /\ ue.productCost = Get(inputs.economics.productCost)
  /\ ue.productCost # Mul(inputs.economics.aov,
                          Sub(N(1), Div(Get(inputs.economics.grossMargin), N(100))))
  /\ Lt(ue.contributionBeforeAds, N(0))

\* C7: with a desired margin of 0 the target ROAS equals the break-even ROAS,
\* finite when the per-order contribution is > 0 and Infinity when it is <= 0,
\* in computeRoasThresholds (with or without LTV mode) and in
\* calculateBreakEven.
C7_ZeroMarginTargetIsBreakEven ==
  /\ (pc = "thresholds" /\ inputs.profitMarginGoal = N(0)) =>
       /\ th.targetRoas = th.breakEvenRoas
       /\ Gt(ue.contributionBeforeAds, N(0)) => isFinite(th.targetRoas)
       /\ Le(ue.contributionBeforeAds, N(0)) => th.targetRoas = Infinity
  /\ (pc = "forward" /\ inputs.economics.desiredProfitMargin = Some(N(0))) =>
       /\ forward.targetRoas = forward.breakEvenRoas
       /\ Gt(forward.netProfitPerOrder, N(0)) => isFinite(forward.targetRoas)
       /\ Le(forward.netProfitPerOrder, N(0)) => forward.targetRoas = Infinity

\* Zero margin in LTV mode with a positive contribution.
C7_Witness ==
  /\ pc = "thresholds"
  /\ inputs.profitMarginGoal = N(0)
  /\ inputs.economics.ltvMode = Some(TRUE)
  /\ Truthy(inputs.economics.ltvMultiplier)
  /\ isFinite(th.targetRoas)
  /\ th.targetRoas = th.breakEvenRoas

CosIsPercentReciprocal(cos, roas) ==
  IF isFinite(roas) THEN Mul(cos, roas) = N(100) ELSE cos = N(0)

\* C8: breakEvenCos x breakEvenRoas = 100 and targetCos x targetRoas = 100
\* when that ROAS is finite, the COS is 0 when it is infinite; calculateReverse
\* returns requiredROAS = revenueTarget / mediaBudget and
\* requiredCOS x requiredROAS = 100.
C8_CosIsReciprocalOfRoas ==
  /\ pc \in {"thresholds", "scenarios", "recommended"} =>
       /\ CosIsPercentReciprocal(th.breakEvenCos, th.breakEvenRoas)
       /\ CosIsPercentReciprocal(th.targetCos, th.targetRoas)
  /\ (pc = "reversed" /\ ~reverse.threw) =>
       /\ reverse.requiredROAS = Div(inputs.revenueTarget, inputs.mediaBudget)
       /\ Mul(reverse.requiredCOS, reverse.requiredROAS) = N(100)

\* A finite break-even ROAS beside an infinite target ROAS.
C8_Witness ==
  /\ pc = "thresholds"
  /\ isFinite(th.breakEvenRoas)
  /\ Mul(th.breakEvenCos, th.breakEvenRoas) = N(100)
  /\ ~isFinite(th.targetRoas)
  /\ th.targetCos = N(0)

C10_MaxProfitAtRevenueFloor ==
  pc \in {"scenarios", "recommended"} =>
    LET percent ==
          IF IsDefined(inputs.minRevenuePercent) THEN Get(inputs.minRevenuePercent)
          ELSE N(80)
        s3 == scen.maxProfitGivenMinRevenue
    IN /\ s3.expectedRevenue = Div(Mul(inputs.revenueTarget, percent), N(100))
       /\ finitePositive(th.targetRoas) =>
            s3.recommendedBudget = Div(s3.expectedRevenue, th.targetRoas)
       /\ (GoalIsValid(inputs) /\ Le(percent, N(100))) =>
            Le(s3.recommendedBudget, scen.budgetForTarget.recommendedBudget)

\* minRevenuePercent omitted, budget strictly below the budget for the target.
C10_Witness ==
  /\ pc = "scenarios"
  /\ GoalIsValid(inputs)
  /\ ~IsDefined(inputs.minRevenuePercent)
  /\ finitePositive(th.targetRoas)
  /\ scen.maxProfitGivenMinRevenue.expectedRevenue =
       Mul(inputs.revenueTarget, R(4, 5))
  /\ Lt(scen.maxProfitGivenMinRevenue.recommendedBudget,
        scen.budgetForTarget.recommendedBudget)

WithoutFlag(scenario) == [scenario EXCEPT !.isRecommended = FALSE]

\* C11: updateScenarioRecommendations leaves every field of every scenario of
\* the set passed to it as it was, isRecommended included, and in the set it
\* returns every field other than isRecommended equals the input's.
C11_InputSetNotMutated ==
  pc = "recommended" =>
    /\ rec.after = rec.given
    /\ \A k \in DOMAIN rec.given :
         WithoutFlag(rec.out[k]) = WithoutFlag(rec.given[k])

\* The returned set moves the recommendation from one scenario to another
\* while the input set still carries its own flags.
C11_Witness ==
  /\ pc = "recommended"
  /\ rec.status = "impossible"
  /\ rec.given.budgetForTarget.isRecommended
  /\ ~rec.given.maxRevenueGivenBudget.isRecommended
  /\ ~rec.out.budgetForTarget.isRecommended
  /\ rec.out.maxRevenueGivenBudget.isRecommended
  /\ rec.after.budgetForTarget.isRecommended
  /\ ~rec.after.maxRevenueGivenBudget.isRecommended

\* The simulations made so far in a run.
RoiResults == { roi.results[slot].result : slot \in {s \in RoiSlots : roi.results[s] # NoResult} }

\* C12: breakEvenMonth is the first month (1..12) whose act-path cumulative
\* profit is > 0: the cumulative profit is > 0 at that month and <= 0 at
\* every earlier month; it is 13 when no month has a positive cumulative
\* profit.
C12_BreakEvenIsFirstPositiveMonth ==
  roi # NoResult =>
    \A r \in RoiResults :
      IF \E m \in 1..12 : Gt(r.ifWeDo[m].cumulativeProfit, N(0))
      THEN /\ r.breakEvenMonth \in 1..12
           /\ Gt(r.ifWeDo[r.breakEvenMonth].cumulativeProfit, N(0))
           /\ \A m \in 1..(r.breakEvenMonth - 1) :
                Le(r.ifWeDo[m].cumulativeProfit, N(0))
      ELSE r.breakEvenMonth = 13

\* A simulation that loses money during the ramp-up and breaks even in the
\* middle of the year, with positive months after the reported one.
C12_Witness ==
  /\ roi # NoResult
  /\ \E r \in RoiResults :
       /\ r.breakEvenMonth \in 3..11
       /\ Lt(r.ifWeDo[1].cumulativeProfit, N(0))
       /\ Gt(r.ifWeDo[r.breakEvenMonth + 1].cumulativeProfit, N(0))

\* The simulations of the three presets made so far in a run.
PresetResults == { roi.results[slot].result : slot \in {s \in RoiCases : roi.results[s] # NoResult} }

StrictlyIncreasingRevenue(path) ==
  \A m \in 1..(Len(path) - 1) :
    Lt(path[m].cumulativeRevenue, path[m + 1].cumulativeRevenue)

PositiveFinite(x) == isFinite(x) /\ Gt(x, N(0))

\* C13: for every simulation with positive budget, positive scenario ROAS and
\* any preset, cumulativeRevenue strictly increases from each month to the
\* next on the act path (ifWeDo) and on the wait path (ifWeWait).
C13_CumulativeRevenueStrictlyIncreasing ==
  ( /\ roi # NoResult
    /\ PositiveFinite(roi.in.mediaBudget)
    /\ PositiveFinite(roi.scenario.recommendedBudget)
    /\ PositiveFinite(roi.scenario.requiredROAS) ) =>
    \A r \in PresetResults :
      /\ StrictlyIncreasingRevenue(r.ifWeDo)
      /\ StrictlyIncreasingRevenue(r.ifWeWait)

\* rampFactor(m) for the month number m = 1..12, as the claim states it.
ClaimedRampFactor(m, rampUpMonths) ==
  IF m <= rampUpMonths
  THEN Add(R(3, 10), Div(Mul(R(7, 10), N(m - 1)), N(rampUpMonths)))
  ELSE N(1)

\* C14: the act path's ad spend in month m is (the chosen scenario's
\* recommended budget / 12) x rampFactor(m), with rampFactor(m) =
\* 0.3 + 0.7 x (m - 1) / rampUpMonths for m <= rampUpMonths and 1 afterwards;
\* it strictly increases during the ramp window and is constant after it.
C14_AdSpendFollowsScenarioBudget ==
  roi # NoResult =>
    \A slot \in {s \in RoiSlots : roi.results[s] # NoResult} :
      LET r == roi.results[slot].result
          rampUpMonths == roi.results[slot].config.rampUpMonths
      IN /\ \A m \in 1..12 :
              r.ifWeDo[m].adSpend =
                Mul(Div(roi.scenario.recommendedBudget, N(12)),
                    ClaimedRampFactor(m, rampUpMonths))
         /\ Gt(roi.scenario.recommendedBudget, N(0)) =>
              \A m \in 1..11 :
                IF m < rampUpMonths
                THEN Lt(r.ifWeDo[m].adSpend, r.ifWeDo[m + 1].adSpend)
                ELSE m > rampUpMonths => r.ifWeDo[m].adSpend = r.ifWeDo[m + 1].adSpend

AllPresetsSimulated == roi # NoResult /\ \A slot \in RoiCases : roi.results[slot] # NoResult

PresetProfitsOrdered ==
  /\ Lt(roi.results["worst"].result.totalProfitDelta,
        roi.results["expected"].result.totalProfitDelta)
  /\ Lt(roi.results["expected"].result.totalProfitDelta,
        roi.results["best"].result.totalProfitDelta)

PositiveSimulationInputs ==
  /\ PositiveFinite(roi.in.mediaBudget)
  /\ PositiveFinite(roi.scenario.recommendedBudget)
  /\ PositiveFinite(roi.scenario.requiredROAS)
  /\ PositiveFinite(roi.scenario.achievedProfitMargin)

\* C15 as claimed: for any goal and scenario with positive budget, positive
\* ROAS and positive profit margin, totalProfitDelta is strictly lower under
\* 'worst' than under 'expected' and strictly lower under 'expected' than
\* under 'best'.
C15_PresetsOrderedForAnyPositiveInputs ==
  (AllPresetsSimulated /\ PositiveSimulationInputs) => PresetProfitsOrdered

\* C15 as amended: the same ordering, for scenarios whose ROAS x profit margin
\* is at least 0.2.
C15_PresetsOrderedAboveMarginFloor ==
  ( /\ AllPresetsSimulated
    /\ PositiveSimulationInputs
    /\ Ge(Mul(roi.scenario.requiredROAS, roi.scenario.achievedProfitMargin), R(1, 5)) ) =>
    PresetProfitsOrdered

\* A scenario that loses money under every preset and is still ordered.
C15_Witness ==
  /\ AllPresetsSimulated
  /\ PositiveSimulationInputs
  /\ Ge(Mul(roi.scenario.requiredROAS, roi.scenario.achievedProfitMargin), R(1, 5))
  /\ Lt(roi.results["best"].result.totalProfitDelta, N(0))
  /\ PresetProfitsOrdered

\* revenue(spend) x profitMargin - spend of a calibrated config at a positive
\* spend: exp(a) x spend^(1 + b) x profitMargin - spend.
ProfitCurve(spend, config, profitMargin) ==
  LET revenue ==
        IF config.b = 0 THEN Q5Mul(Q5OfNumber(config.a.ln), spend)
        ELSE Q5OfNumber(config.a.ln)
  IN Q5Sub(Q5Mul(revenue, Q5OfNumber(profitMargin)), spend)

\* On a positive interval the curves of the configs drawn (b = 0 or b = -1)
\* are linear in the spend, hence monotone, hence unimodal with the peak at
\* a boundary.
SearchOverPositiveInterval ==
  /\ opt # NoResult
  /\ opt.pc = "returned"
  /\ Q5Gt(opt.minBudget, Q5OfInt(0))
  /\ Q5Lt(opt.minBudget, opt.maxBudget)

\* C16: for any calibrated config whose profit curve is unimodal on
\* [minBudget, maxBudget], the profit findOptimalBudget returns is at least
\* the profit at minBudget and at least the profit at maxBudget.
C16_OptimumBeatsBoundaries ==
  SearchOverPositiveInterval =>
    /\ Q5Le(ProfitCurve(opt.minBudget, opt.config, opt.profitMargin), opt.result.profit)
    /\ Q5Le(ProfitCurve(opt.maxBudget, opt.config, opt.profitMargin), opt.result.profit)

BracketWidth == Q5Sub(opt.st.b, opt.st.a)

ReturnsMidpoint ==
  LET midpoint == Q5Div(Q5Add(opt.st.a, opt.st.b), Q5OfInt(2))
      revenue ==
        IF Q5Le(midpoint, Q5OfInt(0)) THEN Q5OfInt(0)
        ELSE IF opt.config.b = 0 THEN Q5Mul(Q5OfNumber(opt.config.a.ln), midpoint)
        ELSE Q5OfNumber(opt.config.a.ln)
  IN /\ opt.result.budget = midpoint
     /\ opt.result.revenue = revenue
     /\ opt.result.profit = Q5Sub(Q5Mul(revenue, Q5OfNumber(opt.profitMargin)), midpoint)

EnoughPoints == Len(calib.data) >= 5

EverySpendPositive == \A i \in 1..Len(calib.data) : calib.data[i].spend.sign = 1

EveryRoasPositive == \A i \in 1..Len(calib.data) : calib.data[i].roas.sign = 1

SpendsAllEqual == \A i, j \in 1..Len(calib.data) : calib.data[i].spend = calib.data[j].spend

HasMessage(text) ==
  \E k \in 1..Len(calib.validation.errors) : calib.validation.errors[k].text = text

VariationRequired == "Alla datapunkter har samma spendvärde. Variation krävs för regression."

BothCalled == calib # NoResult /\ calib.validation # NoResult /\ calib.result # NoResult

\* The first three rules and their messages, as the claim and the code agree.
CountAndSignRulesItemized ==
  /\ HasMessage("Minst 5 datapunkter krävs") <=> ~EnoughPoints
  /\ HasMessage("rad(er) har ogiltigt spendvärde") <=> ~EverySpendPositive
  /\ HasMessage("rad(er) har ogiltigt ROAS-värde") <=> ~EveryRoasPositive

BoolCount(p) == IF p THEN 1 ELSE 0

\* C18 as claimed: validateData reports valid exactly when there are at
\* least 5 points, every spend and every roas is positive and the spends are
\* not all equal; otherwise there is one message per violated rule, and data
\* whose rows all share one spend value gets the 'variation required'
\* message and makes runOLS return null.
C18_OneMessagePerViolatedRule ==
  BothCalled =>
    /\ calib.validation.valid <=>
         (EnoughPoints /\ EverySpendPositive /\ EveryRoasPositive /\ ~SpendsAllEqual)
    /\ CountAndSignRulesItemized
    /\ HasMessage(VariationRequired) <=> SpendsAllEqual
    /\ Len(calib.validation.errors) =
         BoolCount(~EnoughPoints) + BoolCount(~EverySpendPositive)
           + BoolCount(~EveryRoasPositive) + BoolCount(SpendsAllEqual)
    /\ SpendsAllEqual => calib.result = null

\* C18 as amended: the same, except that the 'variation required' message
\* is given exactly to data of at least two rows that all share one spend
\* value; data of fewer than two rows is rejected for its length alone.
C18_VariationMessageFromTwoRows ==
  BothCalled =>
    /\ calib.validation.valid <=>
         (EnoughPoints /\ EverySpendPositive /\ EveryRoasPositive /\ ~SpendsAllEqual)
    /\ CountAndSignRulesItemized
    /\ HasMessage(VariationRequired) <=> (SpendsAllEqual /\ Len(calib.data) >= 2)
    /\ Len(calib.validation.errors) =
         BoolCount(~EnoughPoints) + BoolCount(~EverySpendPositive)
           + BoolCount(~EveryRoasPositive)
           + BoolCount(SpendsAllEqual /\ Len(calib.data) >= 2)
    /\ SpendsAllEqual => calib.result = null

\* Five valid rows sharing one spend value: the only message is the
\* 'variation required' one and runOLS has returned null.
C18_Witness ==
  /\ BothCalled
  /\ EnoughPoints /\ EverySpendPositive /\ EveryRoasPositive /\ SpendsAllEqual
  /\ Len(calib.validation.errors) = 1
  /\ HasMessage(VariationRequired)
  /\ calib.result = null

LogSpends == [i \in 1..Len(calib.data) |-> log(calib.data[i].spend)]

LogRoas == [i \in 1..Len(calib.data) |-> log(calib.data[i].roas)]

\* n x sum(x^2) - (sum x)^2 over x = ln spend
NormalDenominator ==
  Sub(Mul(N(Len(calib.data)), SumOf([i \in 1..Len(calib.data) |-> Square(LogSpends[i])])),
      Square(SumOf(LogSpends)))

\* C19: runOLS returns null exactly when validateData rejects the data or
\* the normal-equation denominator is 0; otherwise it returns a result whose
\* n is the number of points and whose config holds the result's a and b.
C19_NullOrConsistentResult ==
  (calib # NoResult /\ calib.result # NoResult) =>
    /\ calib.result = null <=>
         (~validateData(calib.data).valid \/ NormalDenominator = N(0))
    /\ calib.result # null =>
         /\ calib.result.n = Len(calib.data)
         /\ calib.result.config.a = calib.result.a
         /\ calib.result.config.b = calib.result.b

\* Accepted data whose spends differ but have one logarithm: the
\* denominator is 0 and runOLS has returned null.
C19_Witness ==
  /\ BothCalled
  /\ calib.validation.valid
  /\ NormalDenominator = N(0)
  /\ calib.result = null

OnPowerLaw(a, b) ==
  \A i \in 1..Len(calib.data) : LogRoas[i] = Add(a, Mul(b, LogSpends[i]))

ResidualSumOfSquares ==
  SumOf([i \in 1..Len(calib.data) |->
           Square(Sub(LogRoas[i], Add(calib.result.a, Mul(calib.result.b, LogSpends[i]))))])

Intercepts == {N(0), N(1), N(2)}

Slopes == {N(-1), N(0), N(1)}

\* C20 as claimed: for valid data lying exactly on ln roas = a + b x ln spend
\* runOLS returns that b and that a with zero residual sum of squares and
\* R^2 = 1, for every a and every b including b = 0.
C20_ExactFitHasRSquaredOne ==
  (BothCalled /\ calib.validation.valid) =>
    \A a \in Intercepts, b \in Slopes :
      OnPowerLaw(a, b) =>
        /\ calib.result # null
        /\ calib.result.a = a /\ calib.result.b = b
        /\ ResidualSumOfSquares = N(0)
        /\ calib.result.rSquared = N(1)

\* C20 as amended: for valid data lying exactly on ln roas = a + b x ln
\* spend, whenever runOLS returns a result it returns that b and that a with
\* zero residual sum of squares, and R^2 = 1 when b is not 0; when b = 0 the
\* total sum of squares is 0 and the returned R^2 is 0.
C20_ExactFitRecoversCoefficients ==
  (BothCalled /\ calib.validation.valid /\ calib.result # null) =>
    \A a \in Intercepts, b \in Slopes :
      OnPowerLaw(a, b) =>
        /\ calib.result.a = a /\ calib.result.b = b
        /\ ResidualSumOfSquares = N(0)
        /\ calib.result.rSquared = (IF b = N(0) THEN N(0) ELSE N(1))

\* Valid data on ln roas = 2 - ln spend, fitted.
C20_Witness ==
  /\ BothCalled
  /\ calib.validation.valid
  /\ calib.result # null
  /\ OnPowerLaw(N(2), N(-1))
  /\ calib.result.b = N(-1)
  /\ calib.result.rSquared = N(1)

Stable == "ROAS är stabil oavsett budget. Inga tydliga avtagande effekter."

Light == "Lätt avtagande avkastning. Normal för de flesta annonskanaler."

NormalRegime == "Normal avtagande avkastning. Budget bör optimeras noggrant."

Strong == "Stark avtagande effekt. Ökning av budget ger snabbt minskad ROAS."

\* The four regimes with -0.05, -0.3 and -0.6 as their only boundaries.
ClaimedRegime(b) ==
  IF Gt(b, R(-5, 100)) THEN Stable
  ELSE IF Ge(b, R(-3, 10)) THEN Light
  ELSE IF Ge(b, R(-6, 10)) THEN NormalRegime
  ELSE Strong

\* C21: interpretSlope assigns every slope b to one of four regimes whose
\* only boundaries are -0.05, -0.3 and -0.6: 'stable' above -0.05, 'light'
\* from -0.3 to -0.05, 'normal' from -0.6 to -0.3, 'strong' below -0.6.
C21_RegimesOrderedBySlope ==
  (calib # NoResult /\ calib.result # NoResult /\ calib.result # null) =>
    calib.result.interpretation = ClaimedRegime(calib.result.b)

PastedLines == trimLines(csv.csvText)

HasHeaderRow == startsWithHeaderWord(PastedLines[1])

RevenueHeaderSeen == HasHeaderRow /\ hasRevenueWord(PastedLines[1])

\* The lines after the header row, if there is one.
DataLineNumbers == { i \in 1..Len(PastedLines) : i > 1 \/ ~HasHeaderRow }

\* date ; spend ; third value, the third value possibly with a decimal comma
ThreeColumnRow(line) ==
  /\ Len(line) \in {5, 7}
  /\ line[2] = ";" /\ line[4] = ";"
  /\ \A k \in 1..Len(line) : line[k] = ";" => k \in {2, 4}

SpendOf(line) == parseNum(<<line[3]>>)

ThirdValueOf(line) == parseNum(SubSeq(line, 5, Len(line)))

PointsDated(date) == { k \in 1..Len(csv.parsed) : csv.parsed[k].date = date }

\* C22: in a three-column row the third value is read as revenue (roas =
\* revenue / spend) if a revenue-like header column was seen or the value
\* exceeds 100, and as ROAS (revenue = spend x roas) otherwise; with no
\* header row a third value of at most 100 is read as ROAS.
C22_ThirdValueReading ==
  (csv # NoResult /\ csv.pc = "parsed" /\ detectSeparator(PastedLines) = ";") =>
    \A i \in DataLineNumbers :
      LET line == PastedLines[i]
      IN (ThreeColumnRow(line) /\ Gt(SpendOf(line), N(0)) /\ Gt(ThirdValueOf(line), N(0))) =>
           /\ PointsDated(<<line[1]>>) # {}
           /\ \A k \in PointsDated(<<line[1]>>) :
                IF RevenueHeaderSeen \/ Gt(ThirdValueOf(line), N(100))
                  THEN /\ csv.parsed[k].revenue = ThirdValueOf(line)
                       /\ csv.parsed[k].roas = Div(ThirdValueOf(line), SpendOf(line))
                  ELSE /\ csv.parsed[k].roas = ThirdValueOf(line)
                       /\ csv.parsed[k].revenue = Mul(SpendOf(line), ThirdValueOf(line))

RowCells(i) == cellsOf(PastedLines[i], detectSeparator(PastedLines))

SpendCell(cells) == IF Len(cells) >= 3 THEN cells[2] ELSE cells[1]

YieldsRevenueOrRoas(cells) ==
  IF Len(cells) >= 4 THEN Gt(parseNum(cells[3]), N(0)) \/ Gt(parseNum(cells[4]), N(0))
  ELSE Gt(parseNum(cells[Len(cells)]), N(0))

\* A row the claim lists as skipped: blank, fewer than 2 cells, a spend
\* that is not a positive number, or neither a positive revenue nor a
\* positive ROAS.
BadRow(i) ==
  \/ \A k \in 1..Len(PastedLines[i]) : PastedLines[i][k] \in Whitespace
  \/ Len(RowCells(i)) < 2
  \/ ~Gt(parseNum(SpendCell(RowCells(i))), N(0))
  \/ ~YieldsRevenueOrRoas(RowCells(i))

\* The numbers of the data lines that are not bad, in their order, from
\* line i on.
RECURSIVE KeptFrom(_)
KeptFrom(i) ==
  IF i > Len(PastedLines) THEN <<>>
  ELSE IF i \in DataLineNumbers /\ ~BadRow(i) THEN <<i>> \o KeptFrom(i + 1)
  ELSE KeptFrom(i + 1)

\* C23: every bad row is skipped on its own, all other rows are returned in
\* their original order, and every returned point has spend > 0.
C23_BadRowsSkippedIndividually ==
  (csv # NoResult /\ csv.pc = "parsed") =>
    LET kept == KeptFrom(1)
    IN /\ Len(csv.parsed) = Len(kept)
       /\ \A k \in 1..Len(kept) :
            LET cells == RowCells(kept[k])
            IN /\ csv.parsed[k].spend = parseNum(SpendCell(cells))
               /\ Len(cells) >= 3 => csv.parsed[k].date = cells[1]
               /\ Gt(csv.parsed[k].spend, N(0))

\* Three lines, the middle one bad, the other two returned in order.
C23_Witness ==
  /\ csv # NoResult /\ csv.pc = "parsed"
  /\ Len(PastedLines) = 3
  /\ DataLineNumbers = {1, 2, 3}
  /\ ~BadRow(1) /\ BadRow(2) /\ ~BadRow(3)
  /\ Len(csv.parsed) = 2
  /\ csv.parsed[1].date # csv.parsed[2].date

NonPositive(x) == x.d > 0 /\ x.n <= 0

VolumeReturned == vol # NoResult /\ vol.pc = "returned"

\* C24: calculateManualRevenue returns 0 when budget <= 0 or roas <= 0 or
\* roasRef <= 0, calculateManualEffectiveRoas returns 0 when budget <= 0 or
\* budgetRef <= 0 or roasRef <= 0, predictRoas and predictRevenue return 0
\* when budget <= 0; no call returns NaN or Infinity.
C24_ShortCircuitToZero ==
  VolumeReturned =>
    /\ (vol.fn \in {"calculateManualRevenue", "calculateManualEffectiveRoas"}
          /\ (NonPositive(vol.budget) \/ NonPositive(vol.other) \/ NonPositive(vol.config.roasRef)))
         => vol.result = N(0)
    /\ (vol.fn \in {"predictRoas", "predictRevenue"} /\ NonPositive(vol.budget))
         => (vol.result.p = 0 /\ vol.result.q = 0 /\ vol.result.d = 1)
    /\ vol.result.d > 0

\* calculateManualRevenue with a zero ROAS and a positive elasticity, where
\* the power alone would be Infinity.
C24_Witness ==
  /\ VolumeReturned
  /\ vol.fn = "calculateManualRevenue"
  /\ vol.budget.n > 0 /\ vol.other = N(0) /\ vol.config.roasRef.n > 0
  /\ vol.config.elasticity.n > 0
  /\ vol.result = N(0)

\* The step is a call of saveScenario: the clock stands still and the last
\* handler run is saveScenario.
SaveStep == hook # NoResult /\ hook'.call.op = "saveScenario" /\ hook'.now = hook.now

\* C25: at most 3 saved scenarios are ever held; a save while 3 are held
\* drops the oldest and keeps the two most recent plus the new one, which
\* carries the current inputs; a save with AOV <= 0 changes nothing.
C25_AtMostThreeScenarios ==
  /\ [](hook # NoResult => Len(hook.scenarios) <= 3)
  /\ [][SaveStep =>
          /\ hook.inputs.aov.n <= 0 =>
               (hook'.scenarios = hook.scenarios /\ hook'.inputs = hook.inputs)
          /\ (hook.inputs.aov.n > 0 /\ Len(hook.scenarios) = 3) =>
               /\ Len(hook'.scenarios) = 3
               /\ hook'.scenarios[1] = hook.scenarios[2]
               /\ hook'.scenarios[2] = hook.scenarios[3]
               /\ hook'.scenarios[3].inputs = hook.inputs
               /\ hook'.scenarios[3].id = hook.now]_vars

\* A save that found three scenarios and left three, the newest saved later
\* than the oldest kept.
C25_Witness ==
  /\ hook # NoResult
  /\ hook.call.op = "saveScenario" /\ hook.call.held = 3
  /\ Len(hook.scenarios) = 3
  /\ hook.scenarios[3].id = hook.now
  /\ hook.scenarios[1].id < hook.scenarios[3].id
  /\ hook.inputs.aov.n > 0

\* C26: for AOV > 0 and a desired margin in [0, 1], with or without LTV
\* mode, targetRoas >= breakEvenRoas (Infinity being the largest value), in
\* computeRoasThresholds and in calculateBreakEven.
C26_TargetNotBelowBreakEven ==
  /\ (pc = "thresholds" /\ inputs.economics.aov.n > 0) =>
       \/ th.targetRoas = Infinity
       \/ (isFinite(th.breakEvenRoas) /\ ~Lt(th.targetRoas, th.breakEvenRoas))
  /\ (pc = "forward" /\ inputs.economics.aov.n > 0) =>
       \/ forward.targetRoas = Infinity
       \/ (isFinite(forward.breakEvenRoas)
             /\ ~Lt(forward.targetRoas, forward.breakEvenRoas))

\* LTV mode with a margin strictly between 0 and 1: a finite target above a
\* finite break-even.
C26_Witness ==
  /\ pc = "thresholds"
  /\ inputs.economics.ltvMode = Some(TRUE)
  /\ Truthy(inputs.economics.ltvMultiplier)
  /\ isFinite(th.targetRoas)
  /\ Lt(th.breakEvenRoas, th.targetRoas)


\* The sign of a number: 1, -1 or 0, and "NaN" for NaN.
SignOfNumber(x) ==
  IF IsNaN(x) THEN "NaN"
  ELSE IF Gt(x, N(0)) THEN "1" ELSE IF Lt(x, N(0)) THEN "-1" ELSE "0"

\* The simulations of simulateROI made so far, with their configs.
CurrentSimulations ==
  IF roi = NoResult \/ roi.revision # "current" THEN {}
  ELSE { roi.results[slot] : slot \in {s \in RoiSlots : roi.results[s] # NoResult} }

\* adjustedROAS x achievedProfitMargin - 1 for a scenario and a config.
ProfitPerUnitOfSpend(scenario, config) ==
  Sub(Mul(Mul(scenario.requiredROAS,
              Add(N(1), Div(config.variancePercent, N(100)))),
          scenario.achievedProfitMargin),
      N(1))

ForwardOfGoal ==
  calculateBreakEven([inputs.economics EXCEPT
    !.desiredProfitMargin = Some(Mul(inputs.profitMarginGoal, N(100)))])

ReverseReturned == reverse # NoResult /\ ~reverse.threw

C28_InfiniteTargetReached ==
  /\ ReverseReturned
  /\ isFinite(reverse.breakEvenROAS)
  /\ reverse.targetROAS = Infinity
  /\ Gt(reverse.requiredROAS, reverse.breakEvenROAS)
  /\ reverse.status = "achievable"


Q5Same(x, y) == Q5Sign(Q5Sub(x, y)) = 0

SearchWithinInterval == opt # NoResult /\ Q5Lt(opt.minBudget, opt.maxBudget)

\* minBudget <= a < x1 < x2 < b <= maxBudget
BracketOrdered(st) ==
  /\ Q5Le(opt.minBudget, st.a)
  /\ Q5Lt(st.a, st.x1)
  /\ Q5Lt(st.x1, st.x2)
  /\ Q5Lt(st.x2, st.b)
  /\ Q5Le(st.b, opt.maxBudget)

\* f1 and f2 are the profit at x1 and at x2.
ProfitsCurrent(st) ==
  /\ Q5Same(st.f1, profitFn(st.x1, opt.config, opt.profitMargin))
  /\ Q5Same(st.f2, profitFn(st.x2, opt.config, opt.profitMargin))

\* C29: throughout findOptimalBudget called with minBudget < maxBudget, the
\* search state satisfies minBudget <= a < x1 < x2 < b <= maxBudget, each
\* iteration replaces [a, b] by a strictly narrower bracket contained in it,
\* f1 and f2 always hold the profit at the current x1 and x2, and the
\* returned budget lies within [minBudget, maxBudget].
C29_BracketInvariant ==
  /\ []((SearchWithinInterval /\ opt.st # NoResult) =>
          /\ BracketOrdered(opt.st)
          /\ ProfitsCurrent(opt.st)
          /\ opt.pc = "returned" =>
               /\ Q5Le(opt.minBudget, opt.result.budget)
               /\ Q5Le(opt.result.budget, opt.maxBudget))
  /\ [][(SearchWithinInterval /\ opt.st # NoResult /\ opt'.st.i # opt.st.i) =>
          /\ Q5Le(opt.st.a, opt'.st.a)
          /\ Q5Le(opt'.st.b, opt.st.b)
          /\ Q5Lt(Q5Sub(opt'.st.b, opt'.st.a), Q5Sub(opt.st.b, opt.st.a))]_vars

\* A search that has returned after three or more iterations which raised
\* the lower end of the bracket and kept the upper end.
C29_Witness ==
  /\ SearchWithinInterval
  /\ opt.pc = "returned"
  /\ opt.st.i >= 3
  /\ Q5Gt(opt.st.a, opt.minBudget)
  /\ Q5Same(opt.st.b, opt.maxBudget)
  /\ Q5Lt(opt.st.f1, opt.st.f2)
  /\ Q5Lt(opt.result.budget, opt.maxBudget)


\* The goal is computed without LTV mode: ltvMode && ltvMultiplier is falsy.
WithoutLtvMode ==
  ~(inputs.economics.ltvMode = Some(TRUE) /\ Truthy(inputs.economics.ltvMultiplier))

\* generateScenarios has returned for a finite targetROAS.
ScenariosAtFiniteTarget ==
  /\ pc \in {"scenarios", "recommended"}
  /\ isFinite(th.targetRoas)
  /\ WithoutLtvMode

\* C30: given the finite targetROAS and the contributionBeforeAds that
\* computeUnitEconomics and computeRoasThresholds yield for the same goal
\* margin without LTV mode, every scenario's reported profit is consistent
\* with its reported margin and budget: profitDelta = expectedRevenue x
\* achievedProfitMargin = expectedRevenue x contributionBeforeAds / AOV -
\* recommendedBudget.
C30_ProfitConsistentWithMarginAndBudget ==
  ScenariosAtFiniteTarget =>
    \A k \in DOMAIN scen :
      /\ Eq(scen[k].profitDelta,
            Mul(scen[k].expectedRevenue, scen[k].achievedProfitMargin))
      /\ Eq(scen[k].profitDelta,
            Sub(Div(Mul(scen[k].expectedRevenue, ue.contributionBeforeAds),
                    inputs.economics.aov),
                scen[k].recommendedBudget))

\* A goal with a positive margin whose three scenarios differ in budget and
\* all report a positive profit.
C30_Witness ==
  /\ ScenariosAtFiniteTarget
  /\ pc = "scenarios"
  /\ Gt(inputs.profitMarginGoal, N(0))
  /\ \A k \in DOMAIN scen : Gt(scen[k].profitDelta, N(0))
  /\ Lt(scen.maxProfitGivenMinRevenue.recommendedBudget,
        scen.budgetForTarget.recommendedBudget)
  /\ Lt(scen.maxRevenueGivenBudget.recommendedBudget,
        scen.maxProfitGivenMinRevenue.recommendedBudget)

=============================================================================
